---- MODULE Spec2Model ----
(***************************************************************************)
(* State-machine model of the Fluid-Acoustic Solver GUI (PySide6).         *)
(*                                                                         *)
(* The state is the widget tree that the six tabs build and mutate: the    *)
(* static form fields, the dynamic row lists (Geometry boundary files,     *)
(* boundary-condition rows of the seven variable tabs, prescribed-motion   *)
(* tags, probe and surface rows), the Python list objects shared between   *)
(* tabs, the widgets scheduled with deleteLater(), and the file written by *)
(* SolverGUI.save_input_file.  Every handler is one action.                *)
(*                                                                         *)
(* Text is a sequence of one-character strings, so that os.path.basename   *)
(* and os.path.splitext are computed character by character.               *)
(***************************************************************************)
EXTENDS Integers, Sequences, FiniteSets, TLC

VARIABLES
    lists,                      \* heap of Python list objects: reference -> rows
    gt_boundary_rows,           \* GeometryTab.boundary_rows (a list reference)
    bt_geometry_boundary_rows,  \* BoundaryTab.geometry_boundary_rows (a list reference)
    scroll_layout,              \* GeometryTab.scroll_layout: row widgets in order
    bc_layouts,                 \* BoundaryTab.bc_layouts: tab name -> rows in layout order
    currentIndex,               \* BoundaryTab.bc_tabs.currentIndex()
    fields,                     \* the fixed form fields: field -> current value
    prescribed_tag_rows,        \* PrescribedTab.prescribed_tag_rows
    probe_layout,               \* OutputTab.probe_layout: rows in layout order
    surf_layout,                \* OutputTab.surf_layout: rows in layout order
    file,                       \* the lines the last save left at its path
    first_save,                 \* history: the form and the file of the first written
                                \* save, and whether another form was saved later
    deferred,                   \* number of widgets whose deleteLater() is pending
    lastOp                      \* name of the handler that ran last

geometryVars == <<lists, gt_boundary_rows, bt_geometry_boundary_rows, scroll_layout>>
boundaryVars == <<bc_layouts, currentIndex>>
otherFormVars == <<fields, prescribed_tag_rows, probe_layout, surf_layout>>
fileVars == <<file, first_save>>

vars == <<lists, gt_boundary_rows, bt_geometry_boundary_rows, scroll_layout,
          bc_layouts, currentIndex, fields, prescribed_tag_rows, probe_layout,
          surf_layout, file, first_save, deferred, lastOp>>

(***************************************************************************)
(* Bounds of the model.                                                    *)
(***************************************************************************)
\* Most rows in the Geometry boundary-file list.
MaxBoundaryRows == 3
\* Most boundary-condition rows, all seven tabs together.
MaxBCRows == 3
\* Most widgets scheduled for deletion before the event loop runs again.
MaxDeferred == 2
\* Most fields of a kind that do not hold their starting value.
MaxDirtyFields == 2
\* Most prescribed-motion tag groups.
MaxTags == 3
\* Most rows in the probe list and in the surface list.
MaxOutputRows == 2

\* Most spin boxes of the tag groups away from their starting value.
MaxDirtyTagFields == 1

\* Most rows of the variable tabs in a form that is filled in and saved.
MaxFormRows == 2

\* Most changes to the row lists of a form whose lists of every kind vary.
MaxFormChanges == 4

(***************************************************************************)
(* Numbers of the spin boxes.                                              *)
(***************************************************************************)
\* decimals=4, the most any QDoubleSpinBox of the application is given.
Decimals == 4

RECURSIVE Pow10(_)
Pow10(k) == IF k = 0 THEN 1 ELSE 10 * Pow10(k - 1)

\* One unit of a QDoubleSpinBox value.
Scale == Pow10(Decimals)

(***************************************************************************)
(* Text.                                                                   *)
(***************************************************************************)
EmptyText == <<>>

\* The boundary-file paths a user types or picks with Browse.
FileTexts ==
    { EmptyText,
      <<"d", "/", "b", ".", "x", ".", "y">>,
      <<".", "h">> }

\* str.rfind(c), 1-based; 0 when c does not occur.
rfind(p, c) ==
    IF \E i \in 1..Len(p) : p[i] = c
    THEN CHOOSE i \in 1..Len(p) : p[i] = c /\ \A j \in (i+1)..Len(p) : p[j] # c
    ELSE 0

\* posixpath.basename: everything after the last "/".
basename(p) == SubSeq(p, rfind(p, "/") + 1, Len(p))

\* splitext cutting at the first dot of the file name, as name.split(".")[0].
splitext_root_first_dot(p) ==
    LET sepIndex == rfind(p, "/")
        dots == { k \in (sepIndex+2)..Len(p) : p[k] = "." }
    IN  IF dots = {} THEN p
        ELSE SubSeq(p, 1, (CHOOSE k \in dots : \A j \in dots : k <= j) - 1)

\* genericpath._splitext, first component: the last dot starts the extension
\* unless only dots precede it in the file name.
splitext_root(p) ==
    LET sepIndex == rfind(p, "/")
        dotIndex == rfind(p, ".")
    IN  IF dotIndex > sepIndex
           /\ \E k \in (sepIndex+1)..(dotIndex-1) : p[k] # "."
        THEN SubSeq(p, 1, dotIndex - 1)
        ELSE p

\* f"B-{idx}"
Label(idx) == "B-" \o ToString(idx)

\* f"Select file for Boundary {idx}..."
Placeholder(idx) == "Select file for Boundary " \o ToString(idx) \o "..."

(***************************************************************************)
(* Widgets.  The handlers use the identity of a row widget only to find    *)
(* the row in its list or layout.  A row widget is named by a number,      *)
(* unique in its container; after a removal the widgets of the container   *)
(* are renamed to their positions, which keeps apart no two states that    *)
(* differ only in the names of their widgets.  Detached names a widget     *)
(* that is in no list: one removed earlier and not yet deleted.            *)
(***************************************************************************)
Detached == 0

FreshId(used) ==
    CHOOSE n \in 1..(Cardinality(used) + 1) :
        n \notin used /\ \A m \in 1..(n-1) : m \in used

\* The rows with their widgets renamed to their positions.
Renamed(rows) == [ i \in 1..Len(rows) |-> [ rows[i] EXCEPT !.widget = i ] ]

Range(s) == { s[i] : i \in 1..Len(s) }

\* QLayout.removeWidget on a layout of widgets: s without w.
RECURSIVE Without(_, _)
Without(s, w) ==
    IF s = <<>> THEN <<>>
    ELSE IF Head(s) = w THEN Without(Tail(s), w)
         ELSE <<Head(s)>> \o Without(Tail(s), w)

(***************************************************************************)
(* Geometry tab.                                                           *)
(***************************************************************************)
GeomList == "geomList"      \* the list made by GeometryTab.__init__
BtList == "btList"          \* the list made by BoundaryTab.__init__

boundary_rows == lists[gt_boundary_rows]

GeomWidgetsInUse ==
    { r.widget : r \in Range(boundary_rows) } \cup Range(scroll_layout)

\* GeometryTab.refresh_ui without the renumbering: only the delete buttons.
refresh_ui_no_renumber(rows) ==
    [ i \in 1..Len(rows) |->
        [ rows[i] EXCEPT !.btn_del_visible = (Len(rows) > 1) ] ]

\* GeometryTab.refresh_ui leaving the delete buttons as they are.
refresh_ui_buttons_kept(rows) ==
    [ i \in 1..Len(rows) |->
        [ rows[i] EXCEPT !.label = Label(i), !.placeholder = Placeholder(i) ] ]

\* GeometryTab.refresh_ui: renumber labels and placeholders, show the delete
\* buttons when there is more than one row.
refresh_ui(rows) ==
    [ i \in 1..Len(rows) |->
        [ rows[i] EXCEPT !.label = Label(i),
                         !.placeholder = Placeholder(i),
                         !.btn_del_visible = (Len(rows) > 1) ] ]

add_boundary_row ==
    /\ Len(boundary_rows) < MaxBoundaryRows
    /\ LET row_idx == Len(boundary_rows) + 1
           w == FreshId(GeomWidgetsInUse)
           row == [ widget |-> w,
                    label |-> Label(row_idx),
                    placeholder |-> Placeholder(row_idx),
                    edit |-> EmptyText,
                    btn_del_visible |-> TRUE ]
       IN  /\ scroll_layout' = Append(scroll_layout, w)
           /\ lists' = [ lists EXCEPT ![gt_boundary_rows] = refresh_ui(Append(@, row)) ]
    /\ lastOp' = "add_boundary_row"
    /\ UNCHANGED <<gt_boundary_rows, bt_geometry_boundary_rows, boundaryVars,
                   otherFormVars, fileVars, deferred>>

\* The rows with the first row whose widget is w popped.
PopWidget(rows, w) ==
    IF \E i \in 1..Len(rows) : rows[i].widget = w
    THEN LET i == CHOOSE k \in 1..Len(rows) :
                        rows[k].widget = w /\ \A j \in 1..(k-1) : rows[j].widget # w
         IN  SubSeq(rows, 1, i-1) \o SubSeq(rows, i+1, Len(rows))
    ELSE rows

\* remove_boundary_row without its guard "keep at least one row".
remove_boundary_row_unguarded(widget) ==
    /\ lists' = [ lists EXCEPT ![gt_boundary_rows] =
                                 Renamed(refresh_ui(PopWidget(@, widget))) ]
    /\ scroll_layout' = [ i \in 1..Len(Without(scroll_layout, widget)) |-> i ]
    /\ deferred' = IF widget = Detached THEN deferred ELSE deferred + 1
    /\ deferred' <= MaxDeferred
    /\ lastOp' = "remove_boundary_row"
    /\ UNCHANGED <<gt_boundary_rows, bt_geometry_boundary_rows, boundaryVars,
                   otherFormVars, fileVars>>

remove_boundary_row(widget) ==
    /\ IF Len(boundary_rows) <= 1
       THEN UNCHANGED <<lists, scroll_layout, deferred>>
       ELSE /\ lists' = [ lists EXCEPT ![gt_boundary_rows] =
                                            Renamed(refresh_ui(PopWidget(@, widget))) ]
            /\ scroll_layout' = [ i \in 1..Len(Without(scroll_layout, widget)) |-> i ]
            /\ deferred' = IF widget = Detached THEN deferred ELSE deferred + 1
            /\ deferred' <= MaxDeferred
    /\ lastOp' = "remove_boundary_row"
    /\ UNCHANGED <<gt_boundary_rows, bt_geometry_boundary_rows, boundaryVars,
                   otherFormVars, fileVars>>

\* remove_boundary_row for a row of the list.
RemoveListedBoundaryRow ==
    \E i \in 1..Len(boundary_rows) : remove_boundary_row(boundary_rows[i].widget)

\* A delete button of the boundary-file list that is shown.
ClickRemoveBoundaryRow ==
    \E i \in 1..Len(boundary_rows) :
        /\ boundary_rows[i].btn_del_visible
        /\ remove_boundary_row(boundary_rows[i].widget)

\* remove_boundary_row for a row that was removed and is not deleted yet.
RemoveDetachedBoundaryRow ==
    deferred > 0 /\ remove_boundary_row(Detached)

\* browse_file / typing: the path field of row i gets a new text.
browse_file_boundary(i, path) ==
    /\ i \in 1..Len(boundary_rows)
    /\ boundary_rows[i].edit # path
    /\ lists' = [ lists EXCEPT ![gt_boundary_rows][i].edit = path ]
    /\ lastOp' = "browse_file"
    /\ UNCHANGED <<gt_boundary_rows, bt_geometry_boundary_rows, scroll_layout,
                   boundaryVars, otherFormVars, fileVars, deferred>>

EditBoundaryFile ==
    \E i \in 1..MaxBoundaryRows, path \in FileTexts : browse_file_boundary(i, path)

(***************************************************************************)
(* Boundary-conditions tab.                                                *)
(***************************************************************************)
\* The variable tabs in the order BoundaryTab.init_ui creates them, which is
\* also the iteration order of the dict bc_layouts.
BCTabNames ==
    << "X-velocity", "Y-velocity", "Z-velocity",
       "X-disp", "Y-disp", "Z-disp", "Acoustic-potential" >>

BCTabs == Range(BCTabNames)

\* One tab of each kind: velocity, displacement, acoustic potential.
KindTabNames == { "X-velocity", "X-disp", "Acoustic-potential" }

\* "velocity" in tab_name, "disp" in tab_name, "Acoustic" in tab_name
HasVelocity(tab_name) == tab_name \in { "X-velocity", "Y-velocity", "Z-velocity" }
HasDisp(tab_name) == tab_name \in { "X-disp", "Y-disp", "Z-disp" }
HasAcoustic(tab_name) == tab_name = "Acoustic-potential"

\* The items add_bc_row puts in the row's type dropdown.
TypeItems(tab_name) ==
    IF HasVelocity(tab_name) THEN << "None", "Dirichlet", "matchMeshVel" >>
    ELSE IF HasDisp(tab_name) THEN << "None", "Dirichlet", "prescribed" >>
    ELSE IF HasAcoustic(tab_name) THEN << "None", "Dirichlet" >>
    ELSE << "None", "Dirichlet", "Neumann", "Robin" >>

\* label_text=None
NoLabel == "<None>"

\* The label_text values add_bc_row is called with.
LabelTexts == { NoLabel, Label(1), Label(7) }

\* Texts typed into the "Boundary Name/ID" field of a row.
NameTexts == { EmptyText, <<"w">> }

BCWidgetsInUse(tab_name) == { r.widget : r \in Range(bc_layouts[tab_name]) }

TotalBCRows(layouts) ==
    LET RECURSIVE Sum(_)
        Sum(k) == IF k = 0 THEN 0 ELSE Len(layouts[BCTabNames[k]]) + Sum(k-1)
    IN  Sum(Len(BCTabNames))

\* _refresh_bc_labels doing nothing.
refresh_bc_labels_skipped(layout) == layout

\* BoundaryTab._refresh_bc_labels: the row at layout position i gets "B-(i+1)".
refresh_bc_labels(layout) ==
    [ i \in 1..Len(layout) |-> [ layout[i] EXCEPT !.label = Label(i) ] ]

\* The layout after add_bc_row(layout, tab_name, label_text); used holds the
\* widgets of the container that still exist.
add_bc_row_layout(layout, tab_name, label_text, used) ==
    LET row_count == Len(layout) + 1
        text == IF label_text = NoLabel THEN Label(row_count) ELSE label_text
        w == FreshId(used \cup { r.widget : r \in Range(layout) })
        row == [ widget |-> w,
                 label |-> text,
                 name |-> EmptyText,
                 items |-> TypeItems(tab_name),
                 type |-> TypeItems(tab_name)[1],
                 val |-> 0,
                 has_tag |-> HasDisp(tab_name),
                 tag |-> 0 ]
    IN  refresh_bc_labels(Append(layout, row))

add_bc_row(tab_name, label_text) ==
    /\ TotalBCRows(bc_layouts) < MaxBCRows
    /\ bc_layouts' = [ bc_layouts EXCEPT ![tab_name] =
                         add_bc_row_layout(@, tab_name, label_text,
                                           BCWidgetsInUse(tab_name)) ]
    /\ lastOp' = "add_bc_row"
    /\ UNCHANGED <<geometryVars, currentIndex, otherFormVars, fileVars, deferred>>

\* The "+ Add Boundary Condition" button of a tab: label_text is left out.
ClickAddBC == \E tab_name \in BCTabs : add_bc_row(tab_name, NoLabel)

\* The tabs of the velocity components and of the displacement components.
VelocityTabs == { tab_name \in BCTabs : HasVelocity(tab_name) }
DispTabs == { tab_name \in BCTabs : HasDisp(tab_name) }

\* The "+ Add Boundary Condition" button of one of the tabs.
ClickAddBCIn(tabs) == \E tab_name \in tabs : add_bc_row(tab_name, NoLabel)

\* The "+ Add Boundary Condition" button of a tab of each kind.
ClickAddKindBC ==
    /\ TotalBCRows(bc_layouts) < MaxFormRows
    /\ \E tab_name \in KindTabNames : add_bc_row(tab_name, NoLabel)

\* add_bc_row called with a label_text.
AddBCWithLabel ==
    \E tab_name \in BCTabs, label_text \in LabelTexts \ { NoLabel } :
        add_bc_row(tab_name, label_text)

\* The loop of refresh_active_boundary_tab from iteration i on.
RECURSIVE RefreshLoop(_, _, _, _, _, _)
RefreshLoop(layout, i, count, name, initial, geometry_rows) ==
    IF i >= count THEN layout
    ELSE LET added == add_bc_row_layout(layout, name, Label(i + 1), {})
             boundary_file ==
                 IF i < Len(geometry_rows) THEN geometry_rows[i + 1].edit ELSE EmptyText
             named ==
                 IF ~initial /\ i < Len(geometry_rows) /\ boundary_file # EmptyText
                 THEN [ added EXCEPT ![i + 1].name = splitext_root(basename(boundary_file)) ]
                 ELSE added
         IN  RefreshLoop(named, i + 1, count, name, initial, geometry_rows)

\* The rows of the active tab after refresh_active_boundary_tab(initial):
\* the layout is emptied, then count rows are added.
RefreshedLayout(name, initial, geometry_rows) ==
    LET count == IF initial THEN 1 ELSE Len(geometry_rows)
    IN  RefreshLoop(<<>>, 0, count, name, initial, geometry_rows)

refresh_active_boundary_tab(initial) ==
    LET name == BCTabNames[currentIndex + 1]
        geometry_rows == lists[bt_geometry_boundary_rows]
        count == IF initial THEN 1 ELSE Len(geometry_rows)
    IN  /\ TotalBCRows(bc_layouts) - Len(bc_layouts[name]) + count <= MaxBCRows
        /\ deferred' = deferred + Len(bc_layouts[name])
        /\ deferred' <= MaxDeferred
        /\ bc_layouts' = [ bc_layouts EXCEPT ![name] =
                             RefreshedLayout(name, initial, geometry_rows) ]
        /\ lastOp' = IF initial THEN "refresh_active_boundary_tab(initial=True)"
                                ELSE "refresh_active_boundary_tab"
        /\ UNCHANGED <<geometryVars, currentIndex, otherFormVars, fileVars>>

RefreshInitial == refresh_active_boundary_tab(TRUE)

RefreshFromGeometry == refresh_active_boundary_tab(FALSE)

\* QLayout.removeWidget: the layout without the row whose widget is w.
removeWidget(layout, w) ==
    LET RECURSIVE Pick(_)
        Pick(i) == IF i > Len(layout) THEN <<>>
                   ELSE IF layout[i].widget # w THEN <<layout[i]>> \o Pick(i + 1)
                        ELSE Pick(i + 1)
    IN  Pick(1)

bt_remove_generic_row(tab_name, widget) ==
    /\ bc_layouts' = [ bc_layouts EXCEPT ![tab_name] =
                         Renamed(refresh_bc_labels(removeWidget(@, widget))) ]
    /\ deferred' = deferred + 1
    /\ deferred' <= MaxDeferred
    /\ lastOp' = "remove_generic_row"
    /\ UNCHANGED <<geometryVars, currentIndex, otherFormVars, fileVars>>

\* The delete button of a boundary-condition row.
RemoveBCRow ==
    \E tab_name \in BCTabs :
        \E i \in 1..Len(bc_layouts[tab_name]) :
            bt_remove_generic_row(tab_name, bc_layouts[tab_name][i].widget)

\* The visible button with layout and tab looked up when the button is
\* clicked, not when it is connected: those of the last tab of the loop.
ClickAddLastBC == add_bc_row(BCTabNames[Len(BCTabNames)], NoLabel)

\* The visible "+ Add Boundary Condition" button: that of the active tab.
ClickAddActiveBC == add_bc_row(BCTabNames[currentIndex + 1], NoLabel)

\* The delete button of a row of the active tab.
RemoveActiveBCRow ==
    \E i \in 1..Len(bc_layouts[BCTabNames[currentIndex + 1]]) :
        bt_remove_generic_row(BCTabNames[currentIndex + 1],
                              bc_layouts[BCTabNames[currentIndex + 1]][i].widget)

\* The user selects another variable tab.
setCurrentIndex(k) ==
    /\ k # currentIndex
    /\ currentIndex' = k
    /\ lastOp' = "setCurrentIndex"
    /\ UNCHANGED <<geometryVars, bc_layouts, otherFormVars, fileVars, deferred>>

SelectBCTab == \E k \in 0..(Len(BCTabNames) - 1) : setCurrentIndex(k)

\* A velocity tab and a displacement tab: X-velocity and X-disp.
KindTabs == { 0, 3 }

SelectKindTab == \E k \in KindTabs : setCurrentIndex(k)

\* The values typed into the Value field of a row and into its Tag field.
BCValues == { 0, Scale + Scale \div 2 }
BCTags == { 0, 1, 2 }

\* The number of row fields of the variable tabs that do not hold their
\* starting value.
DirtyBCFields(layouts) ==
    LET Dirty(row) == (IF row.name # EmptyText THEN 1 ELSE 0)
                      + (IF row.type # "None" THEN 1 ELSE 0)
                      + (IF row.val # 0 THEN 1 ELSE 0)
                      + (IF row.tag # 0 THEN 1 ELSE 0)
        RECURSIVE SumRows(_, _)
        SumRows(layout, i) ==
            IF i > Len(layout) THEN 0 ELSE Dirty(layout[i]) + SumRows(layout, i + 1)
        RECURSIVE SumTabs(_)
        SumTabs(k) ==
            IF k = 0 THEN 0 ELSE SumRows(layouts[BCTabNames[k]], 1) + SumTabs(k - 1)
    IN  SumTabs(Len(BCTabNames))

\* The user gives field f of row i of a tab the value v.
setBCField(tab_name, i, f, v) ==
    /\ bc_layouts[tab_name][i][f] # v
    /\ bc_layouts' = [ bc_layouts EXCEPT ![tab_name][i][f] = v ]
    /\ DirtyBCFields(bc_layouts') <= MaxDirtyFields
    /\ lastOp' = "edit_bc_" \o f
    /\ UNCHANGED <<geometryVars, currentIndex, otherFormVars, fileVars, deferred>>

\* The user types a name into a row of one of the tabs.
EditBCNameIn(tabs) ==
    \E tab_name \in tabs :
        \E i \in 1..Len(bc_layouts[tab_name]), text \in NameTexts :
            setBCField(tab_name, i, "name", text)

\* The user picks an item of the type dropdown of a row of one of the tabs.
EditBCTypeIn(tabs) ==
    \E tab_name \in tabs :
        \E i \in 1..Len(bc_layouts[tab_name]) :
            \E item \in Range(bc_layouts[tab_name][i].items) :
                setBCField(tab_name, i, "type", item)

\* The user sets the Value spin box of a row of one of the tabs.
EditBCValueIn(tabs) ==
    \E tab_name \in tabs :
        \E i \in 1..Len(bc_layouts[tab_name]), v \in BCValues :
            setBCField(tab_name, i, "val", v)

\* The user sets the Tag spin box of a displacement row of one of the tabs.
EditBCTagIn(tabs) ==
    \E tab_name \in tabs :
        \E i \in 1..Len(bc_layouts[tab_name]), v \in BCTags :
            /\ bc_layouts[tab_name][i].has_tag
            /\ setBCField(tab_name, i, "tag", v)

\* The user types a name into a boundary-condition row.
EditBCName == EditBCNameIn(KindTabNames)

\* The user picks an item of the row's type dropdown.
EditBCType == EditBCTypeIn(KindTabNames)

\* The user sets the Value spin box of a row.
EditBCValue == EditBCValueIn(KindTabNames)

\* The user sets the Tag spin box of a displacement row.
EditBCTag == EditBCTagIn(KindTabNames)

\* Control returns to the Qt event loop: the deferred deletions run.
ProcessDeferredDelete ==
    /\ deferred > 0
    /\ deferred' = 0
    /\ lastOp' = "deferred_delete"
    /\ UNCHANGED <<geometryVars, boundaryVars, otherFormVars, fileVars>>

(***************************************************************************)
(* The fixed form fields.  A QLineEdit holds a text, a QComboBox one of    *)
(* its items, a QSpinBox an integer, a QCheckBox a boolean, and a          *)
(* QDoubleSpinBox a decimal number, kept as a whole number of 10^-Decimals *)
(* (no spin box of the application shows more decimals).  A field starts   *)
(* with the value its constructor is given.                                *)
(***************************************************************************)
CONNECTIVITY_TYPES == << "4-Node Quadrilateral", "3-Node Triangle", "6-Node Triangle" >>

\* GeometryTab.coord_edit and GeometryTab.conn_edit.
LineEdits == { "coord_edit", "conn_edit" }

\* GeometryTab.conn_type and the combo boxes of SolverTab.solver_widgets.
ComboItems ==
    [ conn_type    |-> CONNECTIVITY_TYPES,
      sim_type     |-> << "Transient", "Steady" >>,
      fluid_eqn    |-> << "Incompressible Navier-Stokes", "Compressible NS",
                          "Euler", "Stokes" >>,
      mesh_eqn     |-> << "None", "ALE", "Prescribed", "Linear Elasticity" >>,
      acoustic_eqn |-> << "None", "Linear Acoustics", "LPCE", "Helmholtz",
                          "Wave Equation" >>,
      dims         |-> << "2D", "3D" >>,
      lin_solver   |-> << "GMRES", "BiCGSTAB", "Direct" >>,
      out_type     |-> << "plt", "vtk", "csv" >> ]

\* The QSpinBox fields of SolverTab.solver_widgets with their value= arguments.
SpinBoxes ==
    [ nl_min |-> 1, nl_max |-> 10, lin_max |-> 30, lin_rst |-> 30,
      max_steps |-> 10, restart_id |-> 20, out_start |-> 5, out_freq |-> 1,
      int_freq |-> 1, rst_freq |-> 100 ]

\* The QDoubleSpinBox fields of SolverTab.solver_widgets, PhysicalTab.phys_inputs
\* and BoundaryTab.init_cond_widgets with their value= arguments.
DoubleSpinBoxes ==
    [ nl_tol |-> 5, lin_tol |-> 5, time_step |-> 100, rho_inf |-> 0,
      acoustic_nrbc_x |-> 0, acoustic_nrbc_y |-> 0, acoustic_nrbc_z |-> 0,
      acoustic_nrbc_inner |-> 10 * Scale, acoustic_nrbc_outer |-> 15 * Scale,
      rho |-> 1000 * Scale, U |-> 1 * Scale, mu |-> 9091, L |-> 1 * Scale,
      gamma |-> 14000, a |-> 340 * Scale,
      pres |-> 0, xvel |-> 1 * Scale, yvel |-> 0, zvel |-> 0,
      xdisp |-> 0, ydisp |-> 0, zdisp |-> 0, psi |-> 0 ]

\* SolverTab.solver_widgets['restart_flag'].
CheckBoxes == { "restart_flag" }

FieldNames ==
    LineEdits \cup DOMAIN ComboItems \cup DOMAIN SpinBoxes
        \cup DOMAIN DoubleSpinBoxes \cup CheckBoxes

\* The fields as the constructors leave them.
InitialFields ==
    [ f \in FieldNames |->
        IF f \in LineEdits THEN EmptyText
        ELSE IF f = "out_type" THEN "vtk"
        ELSE IF f \in DOMAIN ComboItems THEN ComboItems[f][1]
        ELSE IF f \in DOMAIN SpinBoxes THEN SpinBoxes[f]
        ELSE IF f \in DOMAIN DoubleSpinBoxes THEN DoubleSpinBoxes[f]
        ELSE FALSE ]

\* The values typed into a QDoubleSpinBox that starts at d: d itself, a
\* quarter more and one and a half more.
DoubleValues(d) == { d, d + Scale \div 4, d + Scale + Scale \div 2 }

\* The values the user gives a field.
FieldValues(f) ==
    IF f \in LineEdits THEN { EmptyText, <<"m">> }
    ELSE IF f \in DOMAIN ComboItems THEN Range(ComboItems[f])
    ELSE IF f \in DOMAIN SpinBoxes THEN { SpinBoxes[f], SpinBoxes[f] + 1 }
    ELSE IF f = "rho_inf" THEN { 0, Scale \div 4 }
    ELSE IF f \in DOMAIN DoubleSpinBoxes THEN DoubleValues(DoubleSpinBoxes[f])
    ELSE BOOLEAN

\* The number of fixed fields that do not hold their starting value.
DirtyFields(fs) == Cardinality({ f \in FieldNames : fs[f] # InitialFields[f] })

\* The user edits one fixed field.
setField(f, v) ==
    /\ fields[f] # v
    /\ fields' = [ fields EXCEPT ![f] = v ]
    /\ DirtyFields(fields') <= MaxDirtyFields
    /\ lastOp' = "edit_field"
    /\ UNCHANGED <<geometryVars, boundaryVars, prescribed_tag_rows, probe_layout,
                   surf_layout, fileVars, deferred>>

EditField == \E f \in FieldNames : \E v \in FieldValues(f) : setField(f, v)

\* The ends of the range of a spin box that the form's numbers fit into: a
\* QSpinBox without arguments runs from 0 to 99, the others start at 0.
RangeEnds(f) ==
    IF f \in { "nl_min", "nl_max" } THEN { 0, 99 } ELSE { 0 }

\* The spin boxes of the physical parameters a solver relates to each other
\* or divides by.
RangeEndFields ==
    { "nl_min", "nl_max", "acoustic_nrbc_inner", "acoustic_nrbc_outer", "mu" }

\* The user turns one of these spin boxes to an end of its range.
EditFieldToRangeEnd ==
    \E f \in RangeEndFields : \E v \in RangeEnds(f) : setField(f, v)

(***************************************************************************)
(* Prescribed-conditions tab.  A tag group holds its title and the spin    *)
(* boxes of its two grids.                                                 *)
(***************************************************************************)
\* The QDoubleSpinBox fields of a tag group.
PrescribedDoubles ==
    { "heave_amplitude", "heave_frequency", "heave_phase",
      "pitch_amplitude", "pitch_frequency", "pitch_phase",
      "morph_amplitude", "morph_frequency", "morph_phase",
      "morph_position", "leading_edge_x", "leading_edge_y" }

\* The spin boxes of a tag group.
PrescribedFields == PrescribedDoubles \cup { "morph_divisions" }

\* The values add_row_data and the extra grid give the spin boxes of a group.
PrescribedDefaults ==
    [ heave_amplitude |-> 1 * Scale,
      heave_frequency |-> Scale \div 5,
      heave_phase     |-> 90 * Scale,
      pitch_amplitude |-> 30 * Scale,
      pitch_frequency |-> Scale \div 5,
      pitch_phase     |-> 0,
      morph_amplitude |-> 20 * Scale,
      morph_frequency |-> Scale \div 5,
      morph_phase     |-> 0,
      morph_divisions |-> 99,
      morph_position  |-> 0,
      leading_edge_x  |-> 0,
      leading_edge_y  |-> 0 ]

\* The group add_prescribed_tag builds for tag_id.
NewTagGroup(tag_id) ==
    [ title |-> "Prescribed Condition Tag " \o ToString(tag_id) ] @@ PrescribedDefaults

add_prescribed_tag ==
    /\ Len(prescribed_tag_rows) < MaxTags
    /\ LET tag_id == Len(prescribed_tag_rows) + 1
       IN  prescribed_tag_rows' = Append(prescribed_tag_rows, NewTagGroup(tag_id))
    /\ lastOp' = "add_prescribed_tag"
    /\ UNCHANGED <<geometryVars, boundaryVars, fields, probe_layout, surf_layout,
                   fileVars, deferred>>

\* The number of spin boxes of the tag groups that do not hold their starting value.
DirtyTagFields(rows) ==
    LET RECURSIVE Sum(_)
        Sum(k) == IF k = 0 THEN 0
                  ELSE Cardinality({ f \in PrescribedFields :
                                        rows[k][f] # PrescribedDefaults[f] }) + Sum(k - 1)
    IN  Sum(Len(rows))

\* The values the user gives spin box f of a tag group.
PrescribedValues(f) ==
    IF f = "morph_divisions" THEN { 99, 98 } ELSE DoubleValues(PrescribedDefaults[f])

\* The user edits one spin box of tag group k.
EditPrescribedField ==
    \E k \in 1..Len(prescribed_tag_rows) :
        \E f \in PrescribedFields :
            \E v \in PrescribedValues(f) :
                /\ prescribed_tag_rows[k][f] # v
                /\ prescribed_tag_rows' = [ prescribed_tag_rows EXCEPT ![k][f] = v ]
                /\ DirtyTagFields(prescribed_tag_rows') <= MaxDirtyTagFields
                /\ lastOp' = "edit_prescribed_field"
                /\ UNCHANGED <<geometryVars, boundaryVars, fields, probe_layout,
                               surf_layout, fileVars, deferred>>

(***************************************************************************)
(* Output tab.                                                             *)
(***************************************************************************)
\* The two row lists of the tab and the placeholder of their rows.
OutputLayouts == { "probe_layout", "surf_layout" }

OutputPlaceholder(layout) ==
    IF layout = "probe_layout" THEN "Probe file" ELSE "Surface file"

\* Texts typed or browsed into an output row.
OutputTexts == { EmptyText, <<"p">> }

OutputLayout(layout) == IF layout = "probe_layout" THEN probe_layout ELSE surf_layout

\* The row add_output_row appends to rows.
NewOutputRow(rows, placeholder) ==
    [ widget |-> FreshId({ r.widget : r \in Range(rows) }),
      edit |-> EmptyText,
      placeholder |-> placeholder ]

add_output_row(layout, placeholder) ==
    /\ Len(OutputLayout(layout)) < MaxOutputRows
    /\ IF layout = "probe_layout"
       THEN /\ probe_layout' = Append(probe_layout, NewOutputRow(probe_layout, placeholder))
            /\ UNCHANGED surf_layout
       ELSE /\ surf_layout' = Append(surf_layout, NewOutputRow(surf_layout, placeholder))
            /\ UNCHANGED probe_layout
    /\ lastOp' = "add_output_row"
    /\ UNCHANGED <<geometryVars, boundaryVars, fields, prescribed_tag_rows,
                   fileVars, deferred>>

\* The "+ Add Probe File" button.
ClickAddProbe == add_output_row("probe_layout", "Probe file")

\* The "+ Add Surface Forces File" button.
ClickAddSurf == add_output_row("surf_layout", "Surface file")

\* remove_generic_row leaving the row in its layout until the widget is deleted.
ot_remove_generic_row_later(layout, widget) ==
    /\ deferred' = deferred + 1
    /\ deferred' <= MaxDeferred
    /\ lastOp' = "remove_generic_row"
    /\ UNCHANGED <<geometryVars, boundaryVars, otherFormVars, fileVars>>

\* OutputTab.remove_generic_row
ot_remove_generic_row(layout, widget) ==
    /\ IF layout = "probe_layout"
       THEN /\ probe_layout' = Renamed(removeWidget(probe_layout, widget))
            /\ UNCHANGED surf_layout
       ELSE /\ surf_layout' = Renamed(removeWidget(surf_layout, widget))
            /\ UNCHANGED probe_layout
    /\ deferred' = deferred + 1
    /\ deferred' <= MaxDeferred
    /\ lastOp' = "remove_generic_row"
    /\ UNCHANGED <<geometryVars, boundaryVars, fields, prescribed_tag_rows, fileVars>>

\* The delete button of a row of an output list.
RemoveOutputRow(layout) ==
    \E i \in 1..Len(OutputLayout(layout)) :
        ot_remove_generic_row(layout, OutputLayout(layout)[i].widget)

\* _browse_file / typing: the text of a row of an output list becomes one of
\* texts.
EditOutputTextTo(layout, texts) ==
    \E i \in 1..Len(OutputLayout(layout)), text \in texts :
        /\ OutputLayout(layout)[i].edit # text
        /\ IF layout = "probe_layout"
           THEN /\ probe_layout' = [ probe_layout EXCEPT ![i].edit = text ]
                /\ UNCHANGED surf_layout
           ELSE /\ surf_layout' = [ surf_layout EXCEPT ![i].edit = text ]
                /\ UNCHANGED probe_layout
        /\ lastOp' = "edit_output_text"
        /\ UNCHANGED <<geometryVars, boundaryVars, fields, prescribed_tag_rows,
                       fileVars, deferred>>

\* _browse_file / typing: the text of a row of an output list changes.
EditOutputText(layout) == EditOutputTextTo(layout, OutputTexts)

\* File names typed into the rows of the probe list and of the surface list.
ProbeTexts == { EmptyText, <<"p">>, <<"q">> }
SurfTexts == { EmptyText, <<"s">>, <<"t">> }

(***************************************************************************)
(* Formatting.  A written line is a key and a value, both strings; the     *)
(* characters of the line are those of LineText.                           *)
(***************************************************************************)
\* QLineEdit.text(): the characters of a text as one string.
RECURSIVE Str(_)
Str(t) == IF t = <<>> THEN "" ELSE Head(t) \o Str(Tail(t))

Abs(n) == IF n < 0 THEN -n ELSE n

\* n written with exactly k decimal digits.
RECURSIVE Digits(_, _)
Digits(n, k) == IF k = 0 THEN "" ELSE Digits(n \div 10, k - 1) \o ToString(n % 10)

RECURSIVE NumDigits(_)
NumDigits(n) == IF n < 10 THEN 1 ELSE 1 + NumDigits(n \div 10)

\* f"{n}" for an int.
int_str(n) == IF n < 0 THEN "-" \o ToString(-n) ELSE ToString(n)

\* int(x) for a float x: the fraction is cut off.
int(x) == IF x < 0 THEN -((-x) \div Scale) ELSE x \div Scale

\* The digits of a fraction of k decimals without its trailing zeros.
RECURSIVE Fraction(_, _)
Fraction(fp, k) ==
    IF k = 1 \/ fp % 10 # 0 THEN Digits(fp, k) ELSE Fraction(fp \div 10, k - 1)

\* f"{x}" for a float x: repr, the shortest decimal with at least one
\* fraction digit (the values of the form lie between 1e-4 and 1e16, where
\* repr uses no exponent).
float_str(x) ==
    (IF x < 0 THEN "-" ELSE "")
        \o ToString(Abs(x) \div Scale) \o "." \o Fraction(Abs(x) % Scale, Decimals)

\* n / d rounded to a whole number, halves to the even neighbour.
RoundHalfEven(n, d) ==
    LET q == n \div d
        r == n % d
    IN  IF 2 * r > d \/ (2 * r = d /\ q % 2 = 1) THEN q + 1 ELSE q

\* f"{x:.6e}" for a float x: one digit, six decimals, an exponent of at
\* least two digits.
format_6e(x) ==
    LET n == Abs(x)
        sign == IF x < 0 THEN "-" ELSE ""
        nd == NumDigits(n)
        digits7 == IF nd <= 7 THEN n * Pow10(7 - nd)
                   ELSE RoundHalfEven(n, Pow10(nd - 7))
        carry == digits7 = Pow10(7)
        mantissa == IF carry THEN Pow10(6) ELSE digits7
        exponent == (nd - 1 - Decimals) + (IF carry THEN 1 ELSE 0)
    IN  IF n = 0 THEN sign \o "0.000000e+00"
        ELSE sign \o ToString(mantissa \div Pow10(6)) \o "."
                  \o Digits(mantissa % Pow10(6), 6)
                  \o "e" \o (IF exponent < 0 THEN "-" ELSE "+")
                  \o Digits(Abs(exponent), 2)

\* str.lower() on the item texts of the combo boxes.
lower(s) ==
    CASE s = "Transient" -> "transient"
      [] s = "Steady" -> "steady"
      [] s = "GMRES" -> "gmres"
      [] s = "BiCGSTAB" -> "bicgstab"
      [] s = "Direct" -> "direct"
      [] s = "None" -> "none"
      [] s = "Dirichlet" -> "dirichlet"
      [] s = "matchMeshVel" -> "matchmeshvel"
      [] s = "Neumann" -> "neumann"
      [] s = "Robin" -> "robin"
      [] OTHER -> s

\* str.replace('D', '') on the items of the dimensions combo box.
replace_D(s) == CASE s = "2D" -> "2" [] s = "3D" -> "3" [] OTHER -> s

\* dict.get(key, default)
get(map, key, default) == IF key \in DOMAIN map THEN map[key] ELSE default

elem_map ==
    ("4-Node Quadrilateral" :> "4NodeQuad") @@ ("3-Node Triangle" :> "3NodeTri")
        @@ ("6-Node Triangle" :> "6NodeTri")

fluid_eqn_map ==
    ("Incompressible Navier-Stokes" :> "navierStokes")
        @@ ("Compressible NS" :> "compressibleNS")
        @@ ("Euler" :> "euler") @@ ("Stokes" :> "stokes")

mesh_eqn_map ==
    ("None" :> "none") @@ ("ALE" :> "ale")
        @@ ("Prescribed" :> "linearElasticPrescribed")
        @@ ("Linear Elasticity" :> "linearElastic")

acoustic_eqn_map ==
    ("None" :> "none") @@ ("Linear Acoustics" :> "linearAcoustics")
        @@ ("LPCE" :> "lpce") @@ ("Helmholtz" :> "helmholtz")
        @@ ("Wave Equation" :> "waveEquation")

var_map ==
    ("X-velocity" :> "xVelocity") @@ ("Y-velocity" :> "yVelocity")
        @@ ("Z-velocity" :> "zVelocity") @@ ("X-disp" :> "xDisp")
        @@ ("Y-disp" :> "yDisp") @@ ("Z-disp" :> "zDisp")
        @@ ("Acoustic-potential" :> "acousticPotential")

\* f.write(f"{key} = {value}\n")
KV(key, value) == [ key |-> key, value |-> value ]

\* f.write("// text\n")
Comment(text) == [ key |-> "//", value |-> text ]

\* The empty line a second "\n" leaves.
Blank == [ key |-> "", value |-> "" ]

\* The characters of a written line.
LineText(line) ==
    IF line = Blank THEN ""
    ELSE IF line.key = "//" THEN "// " \o line.value
    ELSE line.key \o " = " \o line.value

(***************************************************************************)
(* SolverGUI.save_input_file.  The form is what the handler reads: the     *)
(* fixed fields, the rows of the seven variable tabs, the tag groups and   *)
(* the two output lists.                                                   *)
(***************************************************************************)
Form ==
    [ fields |-> fields,
      bc_layouts |-> bc_layouts,
      prescribed_tag_rows |-> prescribed_tag_rows,
      probe_layout |-> probe_layout,
      surf_layout |-> surf_layout ]

\* The form as the user sees it: the fields the handler reads and the
\* boundary-file rows of the Geometry tab.
FormView == [ form |-> Form, boundary_rows |-> boundary_rows ]

GeometryLines(fs) ==
    << Comment("Geometry details"),
       KV("crdFile", Str(fs["coord_edit"])),
       KV("cnnFile", Str(fs["conn_edit"])),
       KV("elemType", get(elem_map, fs["conn_type"], "4NodeQuad")),
       Blank >>

SolverLines(fs) ==
    << Comment("Solver details"),
       KV("solverType", lower(fs["sim_type"])),
       KV("fluidEqn", get(fluid_eqn_map, fs["fluid_eqn"], "navierStokes")),
       KV("meshEqn", get(mesh_eqn_map, fs["mesh_eqn"], "linearElasticPrescribed")),
       KV("acousticEqn", get(acoustic_eqn_map, fs["acoustic_eqn"], "none")),
       KV("nDims", replace_D(fs["dims"])),
       KV("nonLinearIterMin", int_str(fs["nl_min"])),
       KV("nonLinearIterMax", int_str(fs["nl_max"])),
       KV("nonLinearTolerance", format_6e(fs["nl_tol"])),
       KV("timeStepSize", format_6e(fs["time_step"])),
       KV("maxTimeSteps", int_str(fs["max_steps"])),
       KV("rhoInfinity", format_6e(fs["rho_inf"])),
       KV("linearSolver", lower(fs["lin_solver"])),
       KV("linearSolverTol", format_6e(fs["lin_tol"])),
       KV("linearSolverIterMax", int_str(fs["lin_max"])),
       KV("linearSolverRstIter", int_str(fs["lin_rst"])),
       KV("restartFlag", IF fs["restart_flag"] THEN "1" ELSE "0"),
       KV("restartTsId", int_str(fs["restart_id"])),
       KV("restartOutFreq", int_str(fs["rst_freq"])),
       KV("outputFileType", fs["out_type"]),
       KV("outputStartTimeStep", int_str(fs["out_start"])),
       KV("outFreq", int_str(fs["out_freq"])),
       KV("intOutFreq", int_str(fs["int_freq"])),
       KV("acousticNRBCCentreX", float_str(fs["acoustic_nrbc_x"])),
       KV("acousticNRBCCentreY", float_str(fs["acoustic_nrbc_y"])),
       KV("acousticNRBCCentreZ", float_str(fs["acoustic_nrbc_z"])),
       KV("acousticNRBCInnerRadius", int_str(int(fs["acoustic_nrbc_inner"]))),
       KV("acousticNRBCOuterRadius", int_str(int(fs["acoustic_nrbc_outer"]))),
       Blank >>

FluidLines(fs) ==
    << Comment("Fluid properties"),
       KV("fluidDens", format_6e(fs["rho"])),
       KV("fluidVisc", format_6e(fs["mu"])),
       KV("fluidGamma", float_str(fs["gamma"])),
       KV("fluidSpeedOfSound", int_str(int(fs["a"]))),
       Blank >>

InitialConditionLines(fs) ==
    << Comment("Initial conditions"),
       KV("initPres", format_6e(fs["pres"])),
       KV("initXVel", format_6e(fs["xvel"])),
       KV("initYVel", format_6e(fs["yvel"])),
       KV("initZVel", format_6e(fs["zvel"])),
       KV("initXDisp", format_6e(fs["xdisp"])),
       KV("initYDisp", format_6e(fs["ydisp"])),
       KV("initZDisp", format_6e(fs["zdisp"])),
       KV("initPsi", format_6e(fs["psi"])),
       Blank >>

\* "disp" in var_name.lower()
is_disp(var_name) == var_name \in { "xDisp", "yDisp", "zDisp" }

\* The list a row of tab_name is appended to.
BCList(tab_name) ==
    IF is_disp(var_map[tab_name]) THEN "mesh_bcs"
    ELSE IF HasAcoustic(tab_name) THEN "acoustic_bcs"
    ELSE "flow_bcs"

\* The bc_data of the rows of one tab from row i on; a row of type None is
\* passed over.
RECURSIVE CollectRows(_, _, _)
CollectRows(tab_name, layout, i) ==
    IF i > Len(layout) THEN <<>>
    ELSE LET row == layout[i]
             type_text == lower(row.type)
             bc_data == [ var |-> var_map[tab_name],
                          nodes |-> Str(row.name),
                          type |-> type_text,
                          val |-> row.val,
                          tag |-> row.tag ]
         IN  (IF type_text = "none" THEN <<>> ELSE <<bc_data>>)
                 \o CollectRows(tab_name, layout, i + 1)

\* flow_bcs, mesh_bcs or acoustic_bcs after the loop over bc_layouts, from
\* tab k on.
RECURSIVE Collect(_, _, _)
Collect(layouts, list, k) ==
    IF k > Len(BCTabNames) THEN <<>>
    ELSE (IF BCList(BCTabNames[k]) = list
          THEN CollectRows(BCTabNames[k], layouts[BCTabNames[k]], 1)
          ELSE <<>>)
             \o Collect(layouts, list, k + 1)

\* The block of a flow entry with a val line for every type.
FlowBlockAlwaysVal(i, bc) ==
    << KV("index", int_str(i)), KV("type", bc.type), KV("var", bc.var),
       KV("nodes", bc.nodes), KV("val", float_str(bc.val)) >>

\* The block of a flow entry without a val line for any type.
FlowBlockNeverVal(i, bc) ==
    << KV("index", int_str(i)), KV("type", bc.type), KV("var", bc.var),
       KV("nodes", bc.nodes) >>

\* The block of a flow entry with indexes counted from 1.
FlowBlockFromOne(i, bc) ==
    << KV("index", int_str(i + 1)), KV("type", bc.type), KV("var", bc.var),
       KV("nodes", bc.nodes) >>
        \o (IF bc.type # "matchmeshvel" THEN << KV("val", float_str(bc.val)) >>
            ELSE <<>>)

\* The block of the i-th (0-based) entry of flow_bcs.
FlowBlock(i, bc) ==
    << KV("index", int_str(i)), KV("type", bc.type), KV("var", bc.var),
       KV("nodes", bc.nodes) >>
        \o (IF bc.type # "matchmeshvel" THEN << KV("val", float_str(bc.val)) >>
            ELSE <<>>)

\* The blocks of flow_bcs from entry i (1-based) on; enumerate counts from 0.
RECURSIVE FlowBlocks(_, _)
FlowBlocks(flow_bcs, i) ==
    IF i > Len(flow_bcs) THEN <<>>
    ELSE FlowBlock(i - 1, flow_bcs[i]) \o FlowBlocks(flow_bcs, i + 1)

FlowLines(layouts) ==
    LET flow_bcs == Collect(layouts, "flow_bcs", 1)
    IN  << Comment("Flow boundary conditions"),
           KV("numberBC", int_str(Len(flow_bcs))) >>
            \o FlowBlocks(flow_bcs, 1) \o << Blank >>

\* mesh_bcs without any entry of tag 0.
mesh_bcs_tagged(mesh_bcs) == SelectSeq(mesh_bcs, LAMBDA bc : bc.tag # 0)

\* mesh_bcs with no entry left out.
mesh_bcs_unfiltered(mesh_bcs) == mesh_bcs

\* mesh_bcs without the prescribed entries of tag 0.
RECURSIVE mesh_bcs_filtered(_)
mesh_bcs_filtered(mesh_bcs) ==
    IF mesh_bcs = <<>> THEN <<>>
    ELSE (IF Head(mesh_bcs).tag # 0 \/ Head(mesh_bcs).type # "prescribed"
          THEN << Head(mesh_bcs) >> ELSE <<>>)
             \o mesh_bcs_filtered(Tail(mesh_bcs))

\* The block of a mesh entry written with the type of its dropdown.
MeshBlockTypeKept(i, bc) ==
    << KV("index", int_str(i)), KV("type", bc.type), KV("var", bc.var),
       KV("nodes", bc.nodes) >>
        \o (IF bc.type = "prescribed" THEN << KV("tag", int_str(bc.tag)) >>
            ELSE << KV("val", float_str(bc.val)) >>)

\* The block of the i-th (0-based) entry of mesh_bcs_filtered.
MeshBlock(i, bc) ==
    LET final_type == IF bc.tag > 0 THEN "prescribed" ELSE bc.type
    IN  << KV("index", int_str(i)), KV("type", final_type), KV("var", bc.var),
           KV("nodes", bc.nodes) >>
            \o (IF final_type = "prescribed" THEN << KV("tag", int_str(bc.tag)) >>
                ELSE << KV("val", float_str(bc.val)) >>)

\* The blocks of mesh_bcs_filtered from entry i (1-based) on; enumerate counts from 0.
RECURSIVE MeshBlocks(_, _)
MeshBlocks(filtered, i) ==
    IF i > Len(filtered) THEN <<>>
    ELSE MeshBlock(i - 1, filtered[i]) \o MeshBlocks(filtered, i + 1)

MeshLines(layouts) ==
    LET filtered == mesh_bcs_filtered(Collect(layouts, "mesh_bcs", 1))
    IN  << Comment("Mesh boundary conditions"),
           KV("numberBC", int_str(Len(filtered))) >>
            \o MeshBlocks(filtered, 1) \o << Blank >>

AcousticBlock(i, bc) ==
    << KV("index", int_str(i)), KV("type", bc.type), KV("var", bc.var),
       KV("nodes", bc.nodes), KV("val", float_str(bc.val)) >>

\* The blocks of acoustic_bcs from entry i (1-based) on; enumerate counts from 0.
RECURSIVE AcousticBlocks(_, _)
AcousticBlocks(acoustic_bcs, i) ==
    IF i > Len(acoustic_bcs) THEN <<>>
    ELSE AcousticBlock(i - 1, acoustic_bcs[i]) \o AcousticBlocks(acoustic_bcs, i + 1)

AcousticLines(layouts) ==
    LET acoustic_bcs == Collect(layouts, "acoustic_bcs", 1)
    IN  << Comment("Acoustic boundary conditions"),
           KV("numberBC", int_str(Len(acoustic_bcs))) >>
            \o AcousticBlocks(acoustic_bcs, 1) \o << Blank >>

\* The block of a tag group written with its position in the list as its tag.
PrescribedBlockFromZero(i, group) ==
    << KV("tag", int_str(i)),
       KV("heaveAmp", float_str(group.heave_amplitude)),
       KV("heaveFreq", float_str(group.heave_frequency)),
       KV("heavePhase", int_str(int(group.heave_phase))),
       KV("pitchAmp", int_str(int(group.pitch_amplitude))),
       KV("pitchFreq", float_str(group.pitch_frequency)),
       KV("pitchPhase", int_str(int(group.pitch_phase))),
       KV("pitchAxisX", "0"),
       KV("pitchAxisY", "0"),
       KV("morphAmp", int_str(int(group.morph_amplitude))),
       KV("morphFreq", float_str(group.morph_frequency)),
       KV("morphPhase", int_str(int(group.morph_phase))),
       KV("morphPos", int_str(int(group.morph_position))),
       KV("morphDiv", int_str(group.morph_divisions)),
       KV("LEPosX", int_str(int(group.leading_edge_x))),
       KV("LEPosY", int_str(int(group.leading_edge_y))),
       KV("chordLength", "1") >>

\* The block of the i-th (0-based) tag group.
PrescribedBlock(i, group) ==
    << KV("tag", int_str(i + 1)),
       KV("heaveAmp", float_str(group.heave_amplitude)),
       KV("heaveFreq", float_str(group.heave_frequency)),
       KV("heavePhase", int_str(int(group.heave_phase))),
       KV("pitchAmp", int_str(int(group.pitch_amplitude))),
       KV("pitchFreq", float_str(group.pitch_frequency)),
       KV("pitchPhase", int_str(int(group.pitch_phase))),
       KV("pitchAxisX", "0"),
       KV("pitchAxisY", "0"),
       KV("morphAmp", int_str(int(group.morph_amplitude))),
       KV("morphFreq", float_str(group.morph_frequency)),
       KV("morphPhase", int_str(int(group.morph_phase))),
       KV("morphPos", int_str(int(group.morph_position))),
       KV("morphDiv", int_str(group.morph_divisions)),
       KV("LEPosX", int_str(int(group.leading_edge_x))),
       KV("LEPosY", int_str(int(group.leading_edge_y))),
       KV("chordLength", "1") >>

\* The blocks of prescribed_tag_rows from entry i (1-based) on; enumerate counts from 0.
RECURSIVE PrescribedBlocks(_, _)
PrescribedBlocks(rows, i) ==
    IF i > Len(rows) THEN <<>>
    ELSE PrescribedBlock(i - 1, rows[i]) \o PrescribedBlocks(rows, i + 1)

PrescribedLines(rows) ==
    << Comment("Prescribed motion details"), KV("numberBC", int_str(Len(rows))) >>
        \o PrescribedBlocks(rows, 1) \o << Blank >>

\* probe_rows / surf_rows: the non-empty texts of an output list, in row order.
RECURSIVE OutputRows(_)
OutputRows(layout) ==
    IF layout = <<>> THEN <<>>
    ELSE (IF Head(layout).edit # EmptyText THEN << Str(Head(layout).edit) >> ELSE <<>>)
             \o OutputRows(Tail(layout))

\* The block of an output entry with tags counted from 0.
OutputBlockFromZero(i, txt) == << KV("tag", int_str(i)), KV("nodes", txt) >>

OutputBlock(i, txt) == << KV("tag", int_str(i + 1)), KV("nodes", txt) >>

\* The blocks of probe_rows and of surf_rows from entry i (1-based) on; enumerate counts from 0.
RECURSIVE OutputBlocks(_, _)
OutputBlocks(rows, i) ==
    IF i > Len(rows) THEN <<>>
    ELSE OutputBlock(i - 1, rows[i]) \o OutputBlocks(rows, i + 1)

\* The probe section left out when no probe file is named.
ProbeLinesIfAny(layout) ==
    IF OutputRows(layout) = <<>> THEN <<>>
    ELSE << Comment("Output time history details"),
            KV("numberFiles", int_str(Len(OutputRows(layout)))) >>
             \o OutputBlocks(OutputRows(layout), 1) \o << Blank >>

ProbeLines(layout) ==
    << Comment("Output time history details"),
       KV("numberFiles", int_str(Len(OutputRows(layout)))) >>
        \o OutputBlocks(OutputRows(layout), 1) \o << Blank >>

SurfLines(layout) ==
    << Comment("Output integrated surface details"),
       KV("numberFiles", int_str(Len(OutputRows(layout)))) >>
        \o OutputBlocks(OutputRows(layout), 1)

\* Everything one run of the handler writes for the form.
Written(form) ==
    << Comment("Input file for solver"), Blank >>
        \o GeometryLines(form.fields)
        \o SolverLines(form.fields)
        \o FluidLines(form.fields)
        \o InitialConditionLines(form.fields)
        \o FlowLines(form.bc_layouts)
        \o MeshLines(form.bc_layouts)
        \o AcousticLines(form.bc_layouts)
        \o PrescribedLines(form.prescribed_tag_rows)
        \o ProbeLines(form.probe_layout)
        \o SurfLines(form.surf_layout)
        \o << Blank, Comment("End of input file") >>

\* No file at the path.
NoFile == <<>>

\* The answers of the save dialog: none (cancelled), a path that can be
\* opened for writing, a path that cannot.  `file` is what the file at the
\* path that can be opened holds.
NoPath == ""
SavePaths == { NoPath, "inputFile.txt", "/proc/inputFile.txt" }
CanOpen(path) == path = "inputFile.txt"

\* open(path, 'a'): what the file holds is kept.
open_a(old) == old

\* open(path, 'w'): what the file held is dropped.
open_w(old) == NoFile

\* What has reached the file when a write raises OSError (the device has no
\* space left): the lines written before, here the first one.
Truncated(lines) == SubSeq(lines, 1, 1)

\* Nothing written yet.
NoSave == [ view |-> <<>>, file |-> NoFile, later |-> FALSE ]

\* The history after a written save of the form that left `written` in the
\* file.
Remember(written) ==
    IF first_save.file = NoFile
    THEN [ view |-> FormView, file |-> written, later |-> FALSE ]
    ELSE [ first_save EXCEPT !.later = @ \/ first_save.view # FormView ]

\* save_input_file clearing the fixed fields, the tag groups and the output
\* lists when open or a write raises.
save_input_file_resetting(path) ==
    /\ IF path = NoPath
       THEN /\ lastOp' = "save_input_file(cancelled)"
            /\ UNCHANGED <<fileVars, otherFormVars>>
       ELSE IF ~CanOpen(path)
       THEN /\ lastOp' = "save_input_file(failed)"
            /\ fields' = InitialFields
            /\ prescribed_tag_rows' = <<>>
            /\ probe_layout' = <<>>
            /\ surf_layout' = <<>>
            /\ UNCHANGED fileVars
       ELSE \/ /\ file' = open_w(file) \o Written(Form)
               /\ first_save' = Remember(file')
               /\ lastOp' = "save_input_file"
               /\ UNCHANGED otherFormVars
            \/ /\ file' = open_w(file) \o Truncated(Written(Form))
               /\ lastOp' = "save_input_file(failed)"
               /\ fields' = InitialFields
               /\ prescribed_tag_rows' = <<>>
               /\ probe_layout' = <<>>
               /\ surf_layout' = <<>>
               /\ UNCHANGED first_save
    /\ UNCHANGED <<geometryVars, boundaryVars, deferred>>

\* save_input_file taking the rows out of the probe list as it reads them
\* (takeAt for itemAt).
save_input_file_taking(path) ==
    /\ IF path = NoPath
       THEN /\ lastOp' = "save_input_file(cancelled)"
            /\ UNCHANGED <<fileVars, probe_layout>>
       ELSE IF ~CanOpen(path)
       THEN /\ lastOp' = "save_input_file(failed)"
            /\ UNCHANGED <<fileVars, probe_layout>>
       ELSE \/ /\ file' = open_w(file) \o Written(Form)
               /\ first_save' = Remember(file')
               /\ probe_layout' = <<>>
               /\ lastOp' = "save_input_file"
            \/ /\ file' = open_w(file) \o Truncated(Written(Form))
               /\ probe_layout' = <<>>
               /\ lastOp' = "save_input_file(failed)"
               /\ UNCHANGED first_save
    /\ UNCHANGED <<geometryVars, boundaryVars, fields, prescribed_tag_rows,
                   surf_layout, deferred>>

\* save_input_file writing to the dialog's default name, the file at the path
\* that can be opened, when the dialog is cancelled.
save_input_file_defaulting(path) ==
    /\ IF path = NoPath
       THEN /\ lastOp' = "save_input_file(cancelled)"
            /\ file' = open_w(file) \o Written(Form)
            /\ first_save' = Remember(file')
       ELSE IF ~CanOpen(path)
       THEN /\ lastOp' = "save_input_file(failed)"
            /\ UNCHANGED fileVars
       ELSE \/ /\ file' = open_w(file) \o Written(Form)
               /\ first_save' = Remember(file')
               /\ lastOp' = "save_input_file"
            \/ /\ file' = open_w(file) \o Truncated(Written(Form))
               /\ lastOp' = "save_input_file(failed)"
               /\ UNCHANGED first_save
    /\ UNCHANGED <<geometryVars, boundaryVars, otherFormVars, deferred>>

\* save_input_file refusing a form whose nonLinearIterMin is above its
\* nonLinearIterMax.
save_input_file_validating(path) ==
    /\ IF path = NoPath
       THEN /\ lastOp' = "save_input_file(cancelled)"
            /\ UNCHANGED fileVars
       ELSE IF ~CanOpen(path) \/ fields["nl_min"] > fields["nl_max"]
       THEN /\ lastOp' = "save_input_file(failed)"
            /\ UNCHANGED fileVars
       ELSE \/ /\ file' = open_w(file) \o Written(Form)
               /\ first_save' = Remember(file')
               /\ lastOp' = "save_input_file"
            \/ /\ file' = open_w(file) \o Truncated(Written(Form))
               /\ lastOp' = "save_input_file(failed)"
               /\ UNCHANGED first_save
    /\ UNCHANGED <<geometryVars, boundaryVars, otherFormVars, deferred>>

save_input_file(path) ==
    /\ IF path = NoPath
       THEN /\ lastOp' = "save_input_file(cancelled)"
            /\ UNCHANGED fileVars
       ELSE IF ~CanOpen(path)
       THEN /\ lastOp' = "save_input_file(failed)"
            /\ UNCHANGED fileVars
       ELSE \/ /\ file' = open_w(file) \o Written(Form)
               /\ first_save' = Remember(file')
               /\ lastOp' = "save_input_file"
            \/ /\ file' = open_w(file) \o Truncated(Written(Form))
               /\ lastOp' = "save_input_file(failed)"
               /\ UNCHANGED first_save
    /\ UNCHANGED <<geometryVars, boundaryVars, otherFormVars, deferred>>

\* The "Complete the pre-processing" button and the dialog's answer.
ClickSave == \E path \in SavePaths : save_input_file(path)

(***************************************************************************)
(* The state after SolverGUI.__init__.                                     *)
(***************************************************************************)
\* set_geometry_boundary_rows dropping its argument: the tab keeps its own list.
set_geometry_boundary_rows_unlinked(rows) == BtList

\* BoundaryTab.set_geometry_boundary_rows: keeps the reference it is given.
set_geometry_boundary_rows(rows) == rows

InitGeometry ==
    /\ gt_boundary_rows = GeomList
    /\ lists = [ ref \in { GeomList, BtList } |->
                   IF ref = GeomList
                   THEN refresh_ui(<< [ widget |-> 1,
                                        label |-> Label(1),
                                        placeholder |-> Placeholder(1),
                                        edit |-> EmptyText,
                                        btn_del_visible |-> TRUE ] >>)
                   ELSE <<>> ]
    /\ scroll_layout = << 1 >>

InitBoundary ==
    /\ currentIndex = 0
    /\ bc_layouts = [ tab_name \in BCTabs |->
                        IF tab_name = BCTabNames[1]
                        THEN RefreshedLayout(tab_name, TRUE, <<>>)
                        ELSE <<>> ]
    /\ bt_geometry_boundary_rows = set_geometry_boundary_rows(gt_boundary_rows)

InitOther ==
    /\ fields = InitialFields
    /\ prescribed_tag_rows = << NewTagGroup(1) >>
    /\ probe_layout = << NewOutputRow(<<>>, OutputPlaceholder("probe_layout")) >>
    /\ surf_layout = << NewOutputRow(<<>>, OutputPlaceholder("surf_layout")) >>
    /\ file = NoFile
    /\ first_save = NoSave

Init ==
    /\ InitGeometry
    /\ InitBoundary
    /\ InitOther
    /\ deferred = 0
    /\ lastOp = "__init__"

(***************************************************************************)
(* Specifications.                                                         *)
(***************************************************************************)
\* The Geometry tab's boundary-file list.
NextGeometry ==
    \/ add_boundary_row
    \/ RemoveListedBoundaryRow
    \/ RemoveDetachedBoundaryRow
    \/ EditBoundaryFile
    \/ ProcessDeferredDelete

SpecGeometry == Init /\ [][NextGeometry]_vars

\* The row lists of the Geometry tab and of the seven variable tabs, every
\* method callable.
NextBoundary ==
    \/ add_boundary_row
    \/ RemoveListedBoundaryRow
    \/ ClickAddBC
    \/ AddBCWithLabel
    \/ RefreshInitial
    \/ RefreshFromGeometry
    \/ RemoveBCRow
    \/ SelectBCTab
    \/ ProcessDeferredDelete

SpecBoundary == Init /\ [][NextBoundary]_vars

\* refresh_active_boundary_tab on a velocity and a displacement tab, over the
\* boundary files of a growing Geometry list.
NextRefresh ==
    \/ add_boundary_row
    \/ EditBoundaryFile
    \/ RefreshInitial
    \/ RefreshFromGeometry
    \/ SelectKindTab
    \/ ProcessDeferredDelete

SpecRefresh == Init /\ [][NextRefresh]_vars

\* The variable tabs filled in and the form saved: rows are added to a tab
\* of each kind and edited, then the file is written.
Unsaved == file = NoFile

NextSave ==
    \/ Unsaved /\ ClickAddKindBC
    \/ Unsaved /\ EditBCName
    \/ Unsaved /\ EditBCType
    \/ Unsaved /\ EditBCValue
    \/ Unsaved /\ EditBCTag
    \/ ClickSave

SpecSave == Init /\ [][NextSave]_vars

\* The velocity tabs filled in and the form saved to the path that can be
\* opened.
NextFlow ==
    \/ Unsaved /\ ClickAddBCIn(VelocityTabs)
    \/ Unsaved /\ EditBCNameIn(VelocityTabs)
    \/ Unsaved /\ EditBCTypeIn(VelocityTabs)
    \/ Unsaved /\ EditBCValueIn(VelocityTabs)
    \/ save_input_file("inputFile.txt")

SpecFlow == Init /\ [][NextFlow]_vars

\* The displacement tabs filled in - rows, types and tags - next to the tag
\* groups of the Prescribed tab, and the form saved to the path that can be
\* opened.
NextMesh ==
    \/ Unsaved /\ ClickAddBCIn(DispTabs)
    \/ Unsaved /\ EditBCTypeIn(DispTabs)
    \/ Unsaved /\ EditBCTagIn(DispTabs)
    \/ Unsaved /\ add_prescribed_tag
    \/ save_input_file("inputFile.txt")

SpecMesh == Init /\ [][NextMesh]_vars

\* The fixed fields edited and the form saved.
NextFields ==
    \/ Unsaved /\ EditField
    \/ ClickSave

SpecFields == Init /\ [][NextFields]_vars

\* Spin boxes turned to the ends of their ranges, rows deleted until the
\* lists are empty, and the form saved.
NextValues ==
    \/ Unsaved /\ EditFieldToRangeEnd
    \/ Unsaved /\ RemoveBCRow
    \/ Unsaved /\ RemoveOutputRow("probe_layout")
    \/ Unsaved /\ RemoveOutputRow("surf_layout")
    \/ ProcessDeferredDelete
    \/ ClickSave

SpecValues == Init /\ [][NextValues]_vars

\* How far the row lists are from the lists the application starts with:
\* rows and tag groups added or deleted, row fields filled in.
FormChanges ==
    (Len(prescribed_tag_rows) - 1)
        + Abs(TotalBCRows(bc_layouts) - 1) + DirtyBCFields(bc_layouts)
        + Abs(Len(probe_layout) - 1) + Abs(Len(surf_layout) - 1)
        + Len(OutputRows(probe_layout)) + Len(OutputRows(surf_layout))

\* The row lists of every kind grown and shrunk, a few changes at a time, and
\* the form saved to the path that can be opened.
NextRows ==
    \/ Unsaved /\ ClickAddKindBC /\ FormChanges' <= MaxFormChanges
    \/ Unsaved /\ EditBCType /\ FormChanges' <= MaxFormChanges
    \/ Unsaved /\ add_prescribed_tag /\ FormChanges' <= MaxFormChanges
    \/ Unsaved /\ ClickAddProbe /\ FormChanges' <= MaxFormChanges
    \/ Unsaved /\ ClickAddSurf /\ FormChanges' <= MaxFormChanges
    \/ Unsaved /\ EditOutputText("probe_layout") /\ FormChanges' <= MaxFormChanges
    \/ Unsaved /\ RemoveOutputRow("probe_layout") /\ FormChanges' <= MaxFormChanges
    \/ Unsaved /\ RemoveOutputRow("surf_layout") /\ FormChanges' <= MaxFormChanges
    \/ save_input_file("inputFile.txt")

SpecRows == Init /\ [][NextRows]_vars

\* The probe and surface lists grown, shrunk and filled in, and the form
\* saved to the path that can be opened.
NextOutput ==
    \/ Unsaved /\ ClickAddProbe
    \/ Unsaved /\ ClickAddSurf
    \/ Unsaved /\ EditOutputTextTo("probe_layout", ProbeTexts)
    \/ Unsaved /\ EditOutputTextTo("surf_layout", SurfTexts)
    \/ Unsaved /\ RemoveOutputRow("probe_layout")
    \/ Unsaved /\ RemoveOutputRow("surf_layout")
    \/ ProcessDeferredDelete
    \/ save_input_file("inputFile.txt")

SpecOutput == Init /\ [][NextOutput]_vars

\* Rows of the variable tabs and of the output lists added and filled in, a
\* few changes at a time, and rows deleted, before the first save; the row of
\* the surface list deleted after a save too; the form saved to the path that
\* can be opened, before and after the deferred deletions have run.
NextRemove ==
    \/ Unsaved /\ ClickAddKindBC /\ FormChanges' < MaxFormChanges
    \/ Unsaved /\ EditBCType /\ FormChanges' < MaxFormChanges
    \/ Unsaved /\ ClickAddProbe /\ FormChanges' < MaxFormChanges
    \/ Unsaved /\ EditOutputTextTo("probe_layout", { <<"p">>, <<"q">> }) /\ FormChanges' < MaxFormChanges
    \/ Unsaved /\ EditOutputTextTo("surf_layout", { <<"s">> }) /\ FormChanges' < MaxFormChanges
    \/ Unsaved /\ RemoveBCRow
    \/ Unsaved /\ RemoveOutputRow("probe_layout")
    \/ RemoveOutputRow("surf_layout")
    \/ ProcessDeferredDelete
    \/ save_input_file("inputFile.txt")

SpecRemove == Init /\ [][NextRemove]_vars

\* The seven variable tabs selected in turn, rows added and deleted with the
\* buttons of the tab that is shown, rows of a tab of each kind given a name.
NextTabs ==
    \/ SelectBCTab
    \/ ClickAddActiveBC
    \/ RemoveActiveBCRow
    \/ EditBCName
    \/ ProcessDeferredDelete

SpecTabs == Init /\ [][NextTabs]_vars

\* The prescribed-motion tags added and edited and the form saved.
NextPrescribed ==
    \/ Unsaved /\ add_prescribed_tag
    \/ Unsaved /\ EditPrescribedField
    \/ ClickSave

SpecPrescribed == Init /\ [][NextPrescribed]_vars

\* The probe list changed between saves.
NextResave ==
    \/ ClickAddProbe
    \/ RemoveOutputRow("probe_layout")
    \/ EditOutputText("probe_layout")
    \/ ProcessDeferredDelete
    \/ ClickSave

SpecResave == Init /\ [][NextResave]_vars

\* What the user of the running application can do to the boundary-file
\* list and to the variable tabs without typing a name: the buttons that are
\* shown, the path fields, the tab bar.  The event loop runs the deferred
\* deletions, and the user goes on as long as something can be done.
NextUI ==
    \/ add_boundary_row
    \/ ClickRemoveBoundaryRow
    \/ EditBoundaryFile
    \/ ClickAddActiveBC
    \/ RemoveActiveBCRow
    \/ SelectKindTab
    \/ ProcessDeferredDelete

SpecUI == Init /\ [][NextUI]_vars /\ WF_vars(NextUI)

\* The add and delete buttons of the four row lists: boundary files,
\* boundary-condition rows, prescribed-motion tag groups, output files.
NextLists ==
    \/ add_boundary_row
    \/ ClickRemoveBoundaryRow
    \/ ClickAddActiveBC
    \/ RemoveActiveBCRow
    \/ SelectKindTab
    \/ add_prescribed_tag
    \/ ClickAddProbe
    \/ ClickAddSurf
    \/ RemoveOutputRow("probe_layout")
    \/ RemoveOutputRow("surf_layout")
    \/ ProcessDeferredDelete

SpecLists == Init /\ [][NextLists]_vars

(***************************************************************************)
(* Properties.                                                             *)
(***************************************************************************)
\* The labels and placeholders as the user reads them, by position.
ExpectedLabel == << "B-1", "B-2", "B-3", "B-4", "B-5", "B-6", "B-7", "B-8" >>

ExpectedPlaceholder ==
    << "Select file for Boundary 1...", "Select file for Boundary 2...",
       "Select file for Boundary 3...", "Select file for Boundary 4...",
       "Select file for Boundary 5...", "Select file for Boundary 6..." >>

\* C4: after any sequence of add_boundary_row and remove_boundary_row, the
\* k-th boundary-file row carries the label "B-k" and the placeholder
\* "Select file for Boundary k...": the labels are B-1..B-n, no gap, no
\* duplicate.
C4_BoundaryRowsNumbered ==
    \A k \in 1..Len(lists[gt_boundary_rows]) :
        /\ lists[gt_boundary_rows][k].label = ExpectedLabel[k]
        /\ lists[gt_boundary_rows][k].placeholder = ExpectedPlaceholder[k]

\* C4 witness: a row was removed from a list of three, two rows are left.
C4_Witness ==
    /\ lastOp = "remove_boundary_row"
    /\ deferred > 0
    /\ Len(lists[gt_boundary_rows]) = 2
    /\ lists[gt_boundary_rows][2].label = "B-2"

\* C5: the Geometry tab always keeps at least one boundary-file row, and
\* remove_boundary_row called when exactly one row exists changes neither
\* the row list, nor the layout, nor the row's text.
C5_KeepsOneRow ==
    /\ [](Len(lists[gt_boundary_rows]) >= 1)
    /\ [][ (lastOp' = "remove_boundary_row" /\ Len(lists[gt_boundary_rows]) = 1)
             => UNCHANGED <<lists, gt_boundary_rows, scroll_layout, deferred>> ]_vars

\* C5 witness: remove_boundary_row ran on a single row and removed nothing
\* (no deletion is pending).
C5_Witness ==
    /\ lastOp = "remove_boundary_row"
    /\ Len(lists[gt_boundary_rows]) = 1
    /\ deferred = 0
    /\ lists[gt_boundary_rows][1].edit # EmptyText

\* C6: in each of the seven variable tabs the row at position i (0-based) of
\* the layout is labelled "B-(i+1)", whatever label_text add_bc_row was given.
C6_BCRowsNumbered ==
    \A tab_name \in BCTabs :
        \A i \in 1..Len(bc_layouts[tab_name]) :
            bc_layouts[tab_name][i].label = ExpectedLabel[i]

\* C6 witness: a row was just removed from a tab that still holds two rows.
C6_Witness ==
    /\ lastOp = "remove_generic_row"
    /\ \E tab_name \in BCTabs :
          /\ Len(bc_layouts[tab_name]) = 2
          /\ bc_layouts[tab_name][2].label = "B-2"

\* C9: BoundaryTab.geometry_boundary_rows holds the same rows in the same
\* order as GeometryTab.boundary_rows.
C9_BoundaryRowsShared ==
    lists[bt_geometry_boundary_rows] = lists[gt_boundary_rows]

\* C9 witness: rows were added, given paths and one removed.
C9_Witness ==
    /\ lastOp = "remove_boundary_row"
    /\ deferred > 0
    /\ Len(lists[bt_geometry_boundary_rows]) = 2
    /\ lists[bt_geometry_boundary_rows][1].edit # EmptyText

\* The base name of a path: what follows its last "/".
BaseNameOf(p) ==
    LET k == CHOOSE n \in 1..(Len(p) + 1) :
                 /\ \A j \in n..Len(p) : p[j] # "/"
                 /\ (n = 1 \/ p[n-1] = "/")
    IN  SubSeq(p, k, Len(p))

\* A name with its last extension removed; a name of the form ".h" has none.
LastExtensionRemoved(b) ==
    LET IsExt(k) == /\ b[k] = "."
                    /\ \A j \in (k+1)..Len(b) : b[j] # "."
                    /\ \E j \in 1..(k-1) : b[j] # "."
    IN  IF \E k \in 1..Len(b) : IsExt(k)
        THEN SubSeq(b, 1, (CHOOSE k \in 1..Len(b) : IsExt(k)) - 1)
        ELSE b

\* C8: refresh_active_boundary_tab(initial=False) leaves the active tab with
\* as many rows as there are Geometry boundary-file rows; row i has type
\* "None", value 0 and the base name of boundary file i without its last
\* extension as its name (no name when the file is empty); the rows the tab
\* held are discarded and the six other tabs are unchanged.  With
\* initial=True the active tab gets exactly one row, with no name.
C8_RefreshRebuildsActiveTab ==
    [][ LET name == BCTabNames[currentIndex + 1]
            files == lists[gt_boundary_rows]
            new == bc_layouts'[name]
        IN  /\ lastOp' = "refresh_active_boundary_tab" =>
                /\ Len(new) = Len(files)
                /\ \A i \in 1..Len(new) :
                      /\ new[i].type = "None"
                      /\ new[i].val = 0
                      /\ new[i].name =
                            IF files[i].edit # EmptyText
                            THEN LastExtensionRemoved(BaseNameOf(files[i].edit))
                            ELSE EmptyText
                /\ deferred' = deferred + Len(bc_layouts[name])
                /\ \A other \in BCTabs \ { name } : bc_layouts'[other] = bc_layouts[other]
            /\ lastOp' = "refresh_active_boundary_tab(initial=True)" =>
                /\ Len(new) = 1
                /\ new[1].name = EmptyText
                /\ deferred' = deferred + Len(bc_layouts[name])
                /\ \A other \in BCTabs \ { name } : bc_layouts'[other] = bc_layouts[other]
      ]_vars

\* C8 witness: the X-disp tab, which held a row, was rebuilt from two boundary
\* files, the first named and the second empty, while X-velocity kept its row.
C8_Witness ==
    /\ lastOp = "refresh_active_boundary_tab"
    /\ currentIndex = 3
    /\ deferred > 0
    /\ Len(bc_layouts["X-disp"]) = 2
    /\ bc_layouts["X-disp"][1].name = <<"b", ".", "x">>
    /\ bc_layouts["X-disp"][2].name = EmptyText
    /\ Len(bc_layouts["X-velocity"]) = 1

(***************************************************************************)
(* Properties of the saved file.                                           *)
(***************************************************************************)
\* The outcomes of save_input_file.
SaveOutcomes ==
    { "save_input_file", "save_input_file(cancelled)", "save_input_file(failed)" }

\* A save of the form view would write other lines than the file holds.
Differs(view) == Written(view.form) # file

\* Giving the thing another value changes what a save writes.
FieldContributes(f) ==
    \E v \in FieldValues(f) : Differs([ FormView EXCEPT !.form.fields[f] = v ])

BoundaryFileContributes(i) ==
    \E path \in FileTexts : Differs([ FormView EXCEPT !.boundary_rows[i].edit = path ])

BCFieldContributes(tab_name, i, f, values) ==
    \E v \in values :
        Differs([ FormView EXCEPT !.form.bc_layouts[tab_name][i][f] = v ])

PrescribedFieldContributes(k, f) ==
    \E v \in PrescribedValues(f) :
        Differs([ FormView EXCEPT !.form.prescribed_tag_rows[k][f] = v ])

OutputTextContributes(layout, i) ==
    \E text \in OutputTexts : Differs([ FormView EXCEPT !.form[layout][i].edit = text ])

\* C1 as stated: after a save to a non-empty, writable path every
\* user-editable field of the six tabs, the fields of every row included,
\* contributes its value to the written file: another value in the field
\* gives another file.
C1_EveryFieldContributes ==
    lastOp = "save_input_file" =>
        /\ \A f \in FieldNames : FieldContributes(f)
        /\ \A i \in 1..Len(boundary_rows) : BoundaryFileContributes(i)
        /\ \A tab_name \in BCTabs :
               \A i \in 1..Len(bc_layouts[tab_name]) :
                   LET row == bc_layouts[tab_name][i]
                   IN  /\ BCFieldContributes(tab_name, i, "name", NameTexts)
                       /\ BCFieldContributes(tab_name, i, "type", Range(row.items))
                       /\ BCFieldContributes(tab_name, i, "val", BCValues)
                       /\ row.has_tag => BCFieldContributes(tab_name, i, "tag", BCTags)
        /\ \A k \in 1..Len(prescribed_tag_rows) :
               \A f \in PrescribedFields : PrescribedFieldContributes(k, f)
        /\ \A layout \in OutputLayouts :
               \A i \in 1..Len(OutputLayout(layout)) : OutputTextContributes(layout, i)

\* The fixed fields no line is written for.
NeverWritten == { "U", "L" }

\* The row gets a block in its section of the file.
RowWritten(row) ==
    /\ row.type # "None"
    /\ ~(row.has_tag /\ row.type = "prescribed" /\ row.tag = 0)

\* The block of the row has a val line.
ValueWritten(row) ==
    /\ RowWritten(row)
    /\ row.type # "matchMeshVel"
    /\ ~(row.has_tag /\ row.tag > 0)

\* C1, amended: after a save to a non-empty, writable path every
\* user-editable field contributes its value to the written file, except
\* the boundary-file paths of the Geometry tab and the fields U and L of the
\* Physical tab, which are never written, and, in a boundary-condition row:
\* name, value and tag of a row of type None; name and value of a
\* displacement row of type prescribed with tag 0; the value of a velocity
\* row of type matchMeshVel; the value of a displacement row with a tag
\* above 0.  The excepted fields change no line of the file.
C1_WrittenFieldsContribute ==
    lastOp = "save_input_file" =>
        /\ \A f \in FieldNames : FieldContributes(f) <=> f \notin NeverWritten
        /\ \A i \in 1..Len(boundary_rows) : ~BoundaryFileContributes(i)
        /\ \A tab_name \in BCTabs :
               \A i \in 1..Len(bc_layouts[tab_name]) :
                   LET row == bc_layouts[tab_name][i]
                   IN  /\ BCFieldContributes(tab_name, i, "type", Range(row.items))
                       /\ BCFieldContributes(tab_name, i, "name", NameTexts)
                              <=> RowWritten(row)
                       /\ BCFieldContributes(tab_name, i, "val", BCValues)
                              <=> ValueWritten(row)
                       /\ row.has_tag =>
                              (BCFieldContributes(tab_name, i, "tag", BCTags)
                                   <=> row.type # "None")
        /\ \A k \in 1..Len(prescribed_tag_rows) :
               \A f \in PrescribedFields : PrescribedFieldContributes(k, f)
        /\ \A layout \in OutputLayouts :
               \A i \in 1..Len(OutputLayout(layout)) : OutputTextContributes(layout, i)

\* A file written from a form with a displacement row that is written with
\* its tag, next to a row of type None.
C1_Witness ==
    /\ lastOp = "save_input_file"
    /\ file = Written(Form)
    /\ \E i \in 1..Len(bc_layouts["X-disp"]) :
           /\ bc_layouts["X-disp"][i].type = "Dirichlet"
           /\ bc_layouts["X-disp"][i].tag > 0
    /\ \E i \in 1..Len(bc_layouts["X-velocity"]) :
           bc_layouts["X-velocity"][i].type = "None"

\* C2: two written saves from equal form states leave character-for-character
\* the same file, whatever was added, removed, edited and saved in between:
\* whenever a save has just written the form of the first written save, the
\* file holds the lines that first save left.
C2_EqualFormsEqualFiles ==
    (lastOp = "save_input_file" /\ first_save.view = FormView)
        => file = first_save.file

\* The form of the first save saved again after another form was saved, with
\* a removed row still waiting for its deletion.
C2_Witness ==
    /\ lastOp = "save_input_file"
    /\ first_save.view = FormView
    /\ first_save.later
    /\ deferred > 0
    /\ Len(probe_layout) = 2

\* C3: save_input_file, whatever its outcome, leaves every form field and
\* every row list (boundary files, boundary-condition rows, prescribed tags,
\* probe rows, surface rows) as it was.
C3_SaveLeavesFormUnchanged ==
    [][ lastOp' \in SaveOutcomes
            => UNCHANGED <<geometryVars, boundaryVars, otherFormVars>> ]_vars

\* A file written from a form with rows in the variable tabs.
C3_Witness ==
    /\ lastOp = "save_input_file"
    /\ file = Written(Form)
    /\ TotalBCRows(bc_layouts) = MaxFormRows
    /\ DirtyBCFields(bc_layouts) > 0

\* The index of the comment line of a section.
SectionStart(lines, title) ==
    CHOOSE h \in 1..Len(lines) : lines[h] = Comment(title)

\* The lines of a section: from its comment line to the next blank line.
SectionOf(lines, title) ==
    LET h == SectionStart(lines, title)
        e == CHOOSE j \in (h + 1)..Len(lines) :
                 /\ lines[j] = Blank
                 /\ \A k \in (h + 1)..(j - 1) : lines[k] # Blank
    IN  SubSeq(lines, h + 1, e - 1)

\* The values of the lines of a key, in the order of the lines.
RECURSIVE ValuesOf(_, _)
ValuesOf(lines, key) ==
    IF lines = <<>> THEN <<>>
    ELSE (IF Head(lines).key = key THEN << Head(lines).value >> ELSE <<>>)
             \o ValuesOf(Tail(lines), key)

\* The numbers as the file shows them.
Numeral == << "1", "2", "3", "4", "5", "6" >>

TagTitle ==
    << "Prescribed Condition Tag 1", "Prescribed Condition Tag 2",
       "Prescribed Condition Tag 3", "Prescribed Condition Tag 4",
       "Prescribed Condition Tag 5", "Prescribed Condition Tag 6" >>

\* C10: the k-th tag group is titled 'Prescribed Condition Tag k', and a save
\* writes numberBC = n in the prescribed-motion section, then n blocks whose
\* tag values are 1, 2, ..., n in creation order.
C10_TagsConsecutive ==
    LET n == Len(prescribed_tag_rows)
    IN  /\ \A k \in 1..n : prescribed_tag_rows[k].title = TagTitle[k]
        /\ lastOp = "save_input_file" =>
               LET section == SectionOf(file, "Prescribed motion details")
               IN  /\ section[1] = KV("numberBC", Numeral[n])
                   /\ ValuesOf(section, "numberBC") = << Numeral[n] >>
                   /\ ValuesOf(section, "tag") = [ k \in 1..n |-> Numeral[k] ]

\* A file written from a form with the most tag groups, one of them edited.
C10_Witness ==
    /\ lastOp = "save_input_file"
    /\ Len(prescribed_tag_rows) = MaxTags
    /\ DirtyTagFields(prescribed_tag_rows) > 0

(***************************************************************************)
(* Properties of the running application.                                  *)
(***************************************************************************)
\* Boundary-file row i holds a path.
PathEntered(i) == i <= Len(boundary_rows) /\ boundary_rows[i].edit # EmptyText

\* Row i of the active variable tab is named after boundary file i.
NamedAfterFile(i) ==
    LET layout == bc_layouts[BCTabNames[currentIndex + 1]]
    IN  /\ PathEntered(i)
        /\ i <= Len(layout)
        /\ layout[i].name = LastExtensionRemoved(BaseNameOf(boundary_rows[i].edit))

\* C7: once a path is entered in a boundary-file row, the operations the
\* user can reach lead to a state where the row of that number in the active
\* variable tab is named after the file.
C7_FileNamesFeedNames ==
    (\E i \in 1..MaxBoundaryRows : PathEntered(i))
        ~> (\E i \in 1..MaxBoundaryRows : NamedAfterFile(i))

\* What the operations the user can reach do instead: no row of a variable
\* tab ever gets a name.
C7_NamesStayEmpty ==
    \A tab_name \in BCTabs :
        \A i \in 1..Len(bc_layouts[tab_name]) : bc_layouts[tab_name][i].name = EmptyText

\* The number a numeral of the file stands for.
Number(text) == CHOOSE n \in 0..99 : int_str(n) = text

\* The rows of the tabs in tab order, and within a tab in row order.
RECURSIVE RowsInOrder(_)
RowsInOrder(tab_names) ==
    IF tab_names = <<>> THEN <<>>
    ELSE bc_layouts[Head(tab_names)] \o RowsInOrder(Tail(tab_names))

DispRows == RowsInOrder(<< "X-disp", "Y-disp", "Z-disp" >>)

\* The tags of the rows that have a type and a tag above 0, as numerals.
RECURSIVE TagsAboveZero(_)
TagsAboveZero(rows) ==
    IF rows = <<>> THEN <<>>
    ELSE (IF Head(rows).type # "None" /\ Head(rows).tag > 0
          THEN << int_str(Head(rows).tag) >> ELSE <<>>)
             \o TagsAboveZero(Tail(rows))

MeshTags == ValuesOf(SectionOf(file, "Mesh boundary conditions"), "tag")
PrescribedCount ==
    Number(ValuesOf(SectionOf(file, "Prescribed motion details"), "numberBC")[1])

\* C11, as stated: in every saved file each 'tag = k' line of the mesh
\* boundary conditions section satisfies 1 <= k <= n, where n is the
\* numberBC of the prescribed motion section of the same file.
C11_TagsReferenceGroups ==
    lastOp = "save_input_file" =>
        \A j \in 1..Len(MeshTags) :
            /\ 1 <= Number(MeshTags[j])
            /\ Number(MeshTags[j]) <= PrescribedCount

\* C11, amended: in every saved file each 'tag = k' line of the mesh
\* boundary conditions section satisfies 1 <= k, and k is the Tag field of
\* the displacement row the block is written for: the tag lines are the Tag
\* fields above 0 of the displacement rows whose type is not None, in tab and
\* row order.  n, the numberBC of the prescribed motion section, is the
\* number of tag groups of the Prescribed tab and does not bound k.
C11_TagsAreRowTags ==
    lastOp = "save_input_file" =>
        /\ \A j \in 1..Len(MeshTags) : 1 <= Number(MeshTags[j])
        /\ MeshTags = TagsAboveZero(DispRows)
        /\ PrescribedCount = Len(prescribed_tag_rows)

\* A saved file with a tag line beyond the tag groups of the Prescribed tab.
C11_Witness ==
    /\ lastOp = "save_input_file"
    /\ \E j \in 1..Len(MeshTags) : Number(MeshTags[j]) > PrescribedCount

\* The rows of the variable tab that is shown.
ActiveRows == bc_layouts[BCTabNames[currentIndex + 1]]

\* C12: each of the four row lists supports creation and removal of entries:
\* in every reachable state where a list has at least two entries, a user
\* operation takes one entry off that list and one adds an entry to it.  (The
\* model caps the lengths of the lists and the number of widgets waiting for
\* deleteLater; at a cap nothing is asked.)
C12_ListsGrowAndShrink ==
    /\ Len(boundary_rows) >= 2 =>
           /\ deferred < MaxDeferred =>
                  ENABLED (NextLists /\ Len(lists'[gt_boundary_rows]) = Len(boundary_rows) - 1)
           /\ Len(boundary_rows) < MaxBoundaryRows =>
                  ENABLED (NextLists /\ Len(lists'[gt_boundary_rows]) = Len(boundary_rows) + 1)
    /\ Len(ActiveRows) >= 2 =>
           /\ deferred < MaxDeferred =>
                  ENABLED (NextLists /\ currentIndex' = currentIndex
                                    /\ TotalBCRows(bc_layouts') = TotalBCRows(bc_layouts) - 1)
           /\ TotalBCRows(bc_layouts) < MaxBCRows =>
                  ENABLED (NextLists /\ currentIndex' = currentIndex
                                    /\ TotalBCRows(bc_layouts') = TotalBCRows(bc_layouts) + 1)
    /\ \A layout \in OutputLayouts :
           (Len(OutputLayout(layout)) >= 2 /\ deferred < MaxDeferred) =>
                   ENABLED (NextLists /\ Len(probe_layout') + Len(surf_layout')
                                           = Len(probe_layout) + Len(surf_layout) - 1
                                     /\ (layout = "probe_layout" => surf_layout' = surf_layout)
                                     /\ (layout = "surf_layout" => probe_layout' = probe_layout))
    /\ Len(prescribed_tag_rows) >= 2 =>
           /\ ENABLED (NextLists /\ Len(prescribed_tag_rows') = Len(prescribed_tag_rows) - 1)
           /\ Len(prescribed_tag_rows) < MaxTags =>
                  ENABLED (NextLists /\ Len(prescribed_tag_rows') = Len(prescribed_tag_rows) + 1)

\* The last line of the file.
LastLine(lines) == lines[Len(lines)]

\* C13: save validates no value.  In every reachable form state -
\* nonLinearIterMin above nonLinearIterMax, the acoustic inner radius above
\* the outer one, empty coordinate and connectivity file names, zero
\* viscosity, no row in a boundary-condition or output list - a save to a
\* non-empty path that can be written runs to completion and writes the final
\* '// End of input file' line.
C13_SaveValidatesNothing ==
    /\ ENABLED (/\ save_input_file("inputFile.txt")
                /\ lastOp' = "save_input_file"
                /\ LastLine(file') = Comment("End of input file"))
    /\ lastOp = "save_input_file" => LastLine(file) = Comment("End of input file")

\* A file written from a form with nonLinearIterMin above nonLinearIterMax,
\* the inner radius above the outer one, empty file names and no row in any
\* boundary-condition or output list.
C13_Witness ==
    /\ lastOp = "save_input_file"
    /\ LastLine(file) = Comment("End of input file")
    /\ fields["nl_min"] > fields["nl_max"]
    /\ fields["acoustic_nrbc_inner"] > fields["acoustic_nrbc_outer"]
    /\ fields["coord_edit"] = EmptyText /\ fields["conn_edit"] = EmptyText
    /\ TotalBCRows(bc_layouts) = 0
    /\ probe_layout = <<>> /\ surf_layout = <<>>

\* C14: a failed open or write is the only failure of a save and it is
\* contained: the handler returns with the failure reported, every form field
\* and row list is as before, what the file holds is what it held (open
\* failed) or the lines written before the write that failed, and a later
\* save to a path that can be written succeeds with the content the form
\* gives, whatever the failed save left in the file.
C14_FailedSaveContained ==
    [][ /\ lastOp' = "save_input_file(failed)" =>
               /\ UNCHANGED <<geometryVars, boundaryVars, otherFormVars>>
               /\ file' \in { file, Truncated(Written(Form)) }
        /\ (lastOp' = "save_input_file" /\ lastOp = "save_input_file(failed)") =>
               /\ UNCHANGED <<geometryVars, boundaryVars, otherFormVars>>
               /\ file' = Written(Form)
        /\ lastOp' = "save_input_file" => file' = Written(Form') ]_vars

\* A write failed after an earlier save had written the file: the file holds
\* the first line only, and the form has its two probe rows.
C14_Witness ==
    /\ lastOp = "save_input_file(failed)"
    /\ first_save.file # NoFile
    /\ file = Truncated(Written(Form))
    /\ Len(probe_layout) = 2

\* C15: when the user cancels the save dialog (it returns an empty path),
\* save_input_file opens and writes no file and changes no form state: what
\* the file holds, every field and every row list are as before.  This holds
\* for the first cancelled save and for every later one.
C15_CancelChangesNothing ==
    [][ lastOp' = "save_input_file(cancelled)" =>
            UNCHANGED <<geometryVars, boundaryVars, otherFormVars, fileVars, deferred>> ]_vars

\* A save cancelled after the form was saved and then edited: the file still
\* holds the lines of the earlier save, not those of the form.
C15_Witness ==
    /\ lastOp = "save_input_file(cancelled)"
    /\ file = first_save.file
    /\ file # NoFile
    /\ file # Written(Form)

\* The comment lines of a written file, in the order of the file.
Skeleton ==
    << "Input file for solver", "Geometry details", "Solver details",
       "Fluid properties", "Initial conditions", "Flow boundary conditions",
       "Mesh boundary conditions", "Acoustic boundary conditions",
       "Prescribed motion details", "Output time history details",
       "Output integrated surface details", "End of input file" >>

\* C16: every saved file has the same skeleton, whatever the number of rows
\* in any list: its first line is '// Input file for solver', its last line
\* is '// End of input file', and the comment lines between them are the ten
\* section headers, once each, in the order Geometry details, Solver
\* details, Fluid properties, Initial conditions, Flow, Mesh and Acoustic
\* boundary conditions, Prescribed motion details, Output time history
\* details, Output integrated surface details.
C16_SameSkeleton ==
    lastOp = "save_input_file" =>
        /\ file[1] = Comment("Input file for solver")
        /\ LastLine(file) = Comment("End of input file")
        /\ LET comments == { i \in 1..Len(file) : file[i].key = "//" }
           IN  /\ Cardinality(comments) = Len(Skeleton)
               /\ \A i \in comments :
                      file[i].value = Skeleton[Cardinality({ j \in comments : j <= i })]

\* A file saved with no probe and no surface row, two tag groups and a
\* written boundary-condition row.
C16_Witness ==
    /\ lastOp = "save_input_file"
    /\ probe_layout = <<>> /\ surf_layout = <<>>
    /\ Len(prescribed_tag_rows) = 2
    /\ \E tab_name \in KindTabNames :
           \E i \in 1..Len(bc_layouts[tab_name]) : bc_layouts[tab_name][i].type # "None"

\* The rows of the tabs that have a type, in tab order and within a tab in
\* row order, each with the variable of its tab.
RECURSIVE TypedRows(_)
TypedRows(tab_names) ==
    IF tab_names = <<>> THEN <<>>
    ELSE SelectSeq([ i \in 1..Len(bc_layouts[Head(tab_names)]) |->
                       [ var |-> var_map[Head(tab_names)],
                         row |-> bc_layouts[Head(tab_names)][i] ] ],
                   LAMBDA e : e.row.type # "None")
             \o TypedRows(Tail(tab_names))

TypedVelocityRows == TypedRows(<< "X-velocity", "Y-velocity", "Z-velocity" >>)

FlowSection == SectionOf(file, "Flow boundary conditions")

\* C17: in the flow boundary conditions section numberBC is the number of
\* rows of the X-, Y- and Z-velocity tabs whose type is not None; that many
\* blocks follow, with index 0, 1, ..., numberBC - 1, in tab order (X, Y, Z)
\* and within a tab in row order; a row of type None gives no block and takes
\* no index.
C17_FlowBlocksNumbered ==
    lastOp = "save_input_file" =>
        LET n == Len(TypedVelocityRows)
        IN  /\ FlowSection[1] = KV("numberBC", int_str(n))
            /\ ValuesOf(FlowSection, "numberBC") = << int_str(n) >>
            /\ ValuesOf(FlowSection, "index") = [ k \in 1..n |-> int_str(k - 1) ]
            /\ ValuesOf(FlowSection, "var") = [ k \in 1..n |-> TypedVelocityRows[k].var ]
            /\ ValuesOf(FlowSection, "type")
                   = [ k \in 1..n |-> lower(TypedVelocityRows[k].row.type) ]
            /\ ValuesOf(FlowSection, "nodes")
                   = [ k \in 1..n |-> Str(TypedVelocityRows[k].row.name) ]

\* A file saved with a row of type None before a typed row in the X-velocity
\* tab and a typed row in the Y-velocity tab: two blocks, indexes 0 and 1.
C17_Witness ==
    /\ lastOp = "save_input_file"
    /\ Len(bc_layouts["X-velocity"]) = 2
    /\ bc_layouts["X-velocity"][1].type = "None"
    /\ bc_layouts["X-velocity"][2].type = "Dirichlet"
    /\ Len(bc_layouts["Y-velocity"]) = 1
    /\ bc_layouts["Y-velocity"][1].type = "matchMeshVel"
    /\ ValuesOf(FlowSection, "index") = << "0", "1" >>

\* The k-th block of a section: the lines from its k-th index line up to the
\* next index line or the end of the section.
BlockOf(section, k) ==
    LET starts == { i \in 1..Len(section) : section[i].key = "index" }
        start == CHOOSE i \in starts : Cardinality({ j \in starts : j <= i }) = k
        later == { i \in starts : i > start }
        stop == IF later = {} THEN Len(section)
                ELSE (CHOOSE i \in later : \A j \in later : i <= j) - 1
    IN  SubSeq(section, start, stop)

\* The values of the Value field as the file shows them.
ShownValue(v) == IF v = 0 THEN "0.0" ELSE "1.5"

\* C18: a flow block has a val line exactly when its type is not
\* matchMeshVel: a velocity row of type matchMeshVel is written with its
\* index, type 'matchmeshvel', var and nodes lines and no val line, whatever
\* its Value field holds; a Dirichlet velocity row is written with these four
\* lines and a val line that shows its Value field.
C18_ValUnlessMatchMeshVel ==
    lastOp = "save_input_file" =>
        \A k \in 1..Len(TypedVelocityRows) :
            LET e == TypedVelocityRows[k]
                block == BlockOf(FlowSection, k)
                head == << KV("index", int_str(k - 1)), KV("type", lower(e.row.type)),
                           KV("var", e.var), KV("nodes", Str(e.row.name)) >>
            IN  /\ (ValuesOf(block, "val") # <<>>) <=> (e.row.type # "matchMeshVel")
                /\ e.row.type = "matchMeshVel" =>
                       /\ block = head
                       /\ block[2].value = "matchmeshvel"
                /\ e.row.type = "Dirichlet" =>
                       block = head \o << KV("val", ShownValue(e.row.val)) >>

\* A file saved with a velocity row of type matchMeshVel whose Value field
\* holds 1.5: its block has no val line.
C18_Witness ==
    /\ lastOp = "save_input_file"
    /\ Len(TypedVelocityRows) = 1
    /\ TypedVelocityRows[1].row.type = "matchMeshVel"
    /\ TypedVelocityRows[1].row.val = Scale + Scale \div 2
    /\ ValuesOf(FlowSection, "val") = <<>>

TypedDispRows == TypedRows(<< "X-disp", "Y-disp", "Z-disp" >>)

MeshSection == SectionOf(file, "Mesh boundary conditions")

\* The typed displacement rows without those of type prescribed and tag 0.
WrittenDispRows ==
    SelectSeq(TypedDispRows, LAMBDA e : ~(e.row.type = "prescribed" /\ e.row.tag = 0))

C20_MeshBlockShape ==
    lastOp = "save_input_file" =>
        LET n == Len(WrittenDispRows)
        IN  /\ ValuesOf(MeshSection, "numberBC") = << int_str(n) >>
            /\ MeshSection[1] = KV("numberBC", int_str(n))
            /\ ValuesOf(MeshSection, "index") = [ k \in 1..n |-> int_str(k - 1) ]
            /\ \A k \in 1..n :
                   LET e == WrittenDispRows[k]
                       block == BlockOf(MeshSection, k)
                       type == ValuesOf(block, "type")
                       tag == ValuesOf(block, "tag")
                       val == ValuesOf(block, "val")
                   IN  /\ Len(type) = 1
                       /\ (type[1] = "prescribed") <=> (e.row.tag > 0)
                       /\ type[1] = "prescribed" =>
                              /\ tag = << int_str(e.row.tag) >>
                              /\ Number(tag[1]) >= 1
                              /\ val = <<>>
                       /\ type[1] # "prescribed" =>
                              /\ type[1] = lower(e.row.type)
                              /\ val = << ShownValue(e.row.val) >>
                              /\ tag = <<>>

\* A file saved with a displacement row whose dropdown selects Dirichlet and
\* whose Tag is 1: its block has the type prescribed and a tag line.
C20_Witness ==
    /\ lastOp = "save_input_file"
    /\ Len(WrittenDispRows) = 1
    /\ WrittenDispRows[1].row.type = "Dirichlet"
    /\ WrittenDispRows[1].row.tag = 1
    /\ ValuesOf(MeshSection, "type") = << "prescribed" >>
    /\ ValuesOf(MeshSection, "tag") = << "1" >>

\* The non-empty texts of the rows of an output list, in row order.
NamedFiles(layout) ==
    LET named == SelectSeq(layout, LAMBDA row : row.edit # EmptyText)
    IN  [ k \in 1..Len(named) |-> Str(named[k].edit) ]

ProbeSection == SectionOf(file, "Output time history details")
SurfSection == SectionOf(file, "Output integrated surface details")

\* The section is numberFiles = n and then a tag/nodes pair for each of the
\* n names, tagged 1..n in the order of the names.
OutputSectionOf(section, names) ==
    LET n == Len(names)
    IN  /\ Len(section) = 1 + 2 * n
        /\ section[1] = KV("numberFiles", int_str(n))
        /\ \A k \in 1..n :
               /\ section[2 * k] = KV("tag", Numeral[k])
               /\ section[2 * k + 1] = KV("nodes", names[k])

\* C21: in each of the two output sections numberFiles is the number of rows
\* of that list whose text is not empty; that many tag/nodes pairs follow,
\* tagged 1, 2, ..., numberFiles in row order; a row with empty text is
\* skipped and takes no tag; no probe row appears in the surface section and
\* no surface row in the probe section.
C21_OutputSectionsNumbered ==
    lastOp = "save_input_file" =>
        /\ OutputSectionOf(ProbeSection, NamedFiles(probe_layout))
        /\ OutputSectionOf(SurfSection, NamedFiles(surf_layout))

\* A file saved with an empty probe row before a named one and two named
\* surface rows: the probe section has the one pair tagged 1, the surface
\* section the two names in row order.
C21_Witness ==
    /\ lastOp = "save_input_file"
    /\ Len(probe_layout) = 2
    /\ probe_layout[1].edit = EmptyText /\ probe_layout[2].edit = <<"q">>
    /\ Len(surf_layout) = 2
    /\ surf_layout[1].edit = <<"t">> /\ surf_layout[2].edit = <<"s">>
    /\ ValuesOf(ProbeSection, "nodes") = << "q" >>
    /\ ValuesOf(ProbeSection, "tag") = << "1" >>
    /\ ValuesOf(SurfSection, "nodes") = << "t", "s" >>

(***************************************************************************)
(* Removed rows.                                                           *)
(***************************************************************************)

\* rows without the entry at position i
RowsWithout(rows, i) ==
    [ k \in 1..(Len(rows) - 1) |-> IF k < i THEN rows[k] ELSE rows[k + 1] ]

\* What the user put into the rows of a variable tab, in row order.
BCContents(rows) ==
    [ k \in 1..Len(rows) |-> [ rows[k] EXCEPT !.widget = 0, !.label = NoLabel ] ]

\* What the user put into the rows of an output list, in row order.
OutputContents(rows) == [ k \in 1..Len(rows) |-> rows[k].edit ]

\* One row has left one list; the rows that remain hold what they held, in
\* the order they had, and every other list is as it was.
OneRowRemoved ==
    \/ /\ \E tab_name \in BCTabs :
              /\ \E i \in 1..Len(bc_layouts[tab_name]) :
                     BCContents(bc_layouts'[tab_name])
                         = BCContents(RowsWithout(bc_layouts[tab_name], i))
              /\ \A other \in BCTabs \ { tab_name } :
                     bc_layouts'[other] = bc_layouts[other]
       /\ UNCHANGED <<probe_layout, surf_layout>>
    \/ /\ \E i \in 1..Len(probe_layout) :
              OutputContents(probe_layout') = OutputContents(RowsWithout(probe_layout, i))
       /\ UNCHANGED <<bc_layouts, surf_layout>>
    \/ /\ \E i \in 1..Len(surf_layout) :
              OutputContents(surf_layout') = OutputContents(RowsWithout(surf_layout, i))
       /\ UNCHANGED <<bc_layouts, probe_layout>>

TypedAcousticRows == TypedRows(<< "Acoustic-potential" >>)

\* The lines of the file with a key, in file order.
LinesOf(key) == SelectSeq(file, LAMBDA line : line.key = key)

\* The file holds one block for each row now in the lists, section after
\* section and within a section in row order, and counts those rows: the
\* first three numberBC lines are those of the flow, mesh and acoustic
\* sections, the two numberFiles lines those of the probe and surface
\* sections; type and var lines are written in the blocks of boundary
\* conditions only, nodes lines in those and in the blocks of output files.
ListedRowsWritten ==
    LET bc_rows == TypedVelocityRows \o WrittenDispRows \o TypedAcousticRows
        probe_files == NamedFiles(probe_layout)
        surf_files == NamedFiles(surf_layout)
    IN  /\ SubSeq(LinesOf("numberBC"), 1, 3)
               = << KV("numberBC", int_str(Len(TypedVelocityRows))),
                    KV("numberBC", int_str(Len(WrittenDispRows))),
                    KV("numberBC", int_str(Len(TypedAcousticRows))) >>
        /\ LinesOf("numberFiles")
               = << KV("numberFiles", int_str(Len(probe_files))),
                    KV("numberFiles", int_str(Len(surf_files))) >>
        /\ LinesOf("type")
               = [ k \in 1..Len(bc_rows) |-> KV("type", lower(bc_rows[k].row.type)) ]
        /\ LinesOf("var") = [ k \in 1..Len(bc_rows) |-> KV("var", bc_rows[k].var) ]
        /\ LinesOf("nodes")
               = [ k \in 1..Len(bc_rows) |-> KV("nodes", Str(bc_rows[k].row.name)) ]
                     \o [ k \in 1..Len(probe_files) |-> KV("nodes", probe_files[k]) ]
                     \o [ k \in 1..Len(surf_files) |-> KV("nodes", surf_files[k]) ]

\* C22: a row removed with its delete button appears in no later save.  The
\* click takes the row out of its list at once and leaves the other rows of
\* the list in their order; every written save, also one made before the
\* deferred deletion of the removed widget has run, writes a block for a row
\* and counts it in numberBC or numberFiles only if the row is in its list at
\* the time of the save.
C22_RemovedRowsStayOut ==
    [][ /\ (lastOp' = "remove_generic_row") => OneRowRemoved
        /\ (lastOp' = "save_input_file") => ListedRowsWritten' ]_vars

\* The first save wrote a block for the surface file "s"; its row was then
\* removed and the form saved again while the removed widget still awaits
\* its deletion: the surface section counts no file and the file holds no
\* nodes line for "s".
C22_Witness ==
    /\ lastOp = "save_input_file"
    /\ deferred > 0
    /\ first_save.later
    /\ KV("nodes", "s") \in Range(first_save.file)
    /\ surf_layout = <<>>
    /\ LinesOf("numberFiles")[2] = KV("numberFiles", "0")
    /\ KV("nodes", "s") \notin Range(file)

(***************************************************************************)
(* Delete buttons of the boundary-file rows.                               *)
(***************************************************************************)

\* C23: in every reachable state of the Geometry tab the delete button of
\* every boundary-file row is visible if and only if the tab has more than
\* one row.
C23_DeleteShownIffSeveralRows ==
    \A i \in 1..Len(boundary_rows) :
        boundary_rows[i].btn_del_visible <=> (Len(boundary_rows) > 1)

\* A second row has just been added: both delete buttons are shown.
C23_Witness ==
    /\ lastOp = "add_boundary_row"
    /\ Len(boundary_rows) = 2
    /\ boundary_rows[1].btn_del_visible
    /\ boundary_rows[2].btn_del_visible

(***************************************************************************)
(* The buttons of the variable tabs.                                       *)
(***************************************************************************)

\* The tab that is shown: its buttons are the ones that can be clicked.
ShownTab == BCTabNames[currentIndex + 1]

\* The type options and the Tag field of a row of a tab.
OptionsOf(tab_name) ==
    IF tab_name \in { "X-velocity", "Y-velocity", "Z-velocity" }
    THEN [ items |-> << "None", "Dirichlet", "matchMeshVel" >>, has_tag |-> FALSE ]
    ELSE IF tab_name \in { "X-disp", "Y-disp", "Z-disp" }
    THEN [ items |-> << "None", "Dirichlet", "prescribed" >>, has_tag |-> TRUE ]
    ELSE [ items |-> << "None", "Dirichlet" >>, has_tag |-> FALSE ]

\* The lists of the tabs other than tab_name are as they were.
OtherTabsUnchanged(tab_name) ==
    \A other \in BCTabs \ { tab_name } : bc_layouts'[other] = bc_layouts[other]

\* C24: the "+ Add Boundary Condition" button of each variable tab is bound
\* to its own tab: a click on it in tab T appends exactly one row to the list
\* of T, with the type options of T (velocity: None, Dirichlet, matchMeshVel;
\* disp: None, Dirichlet, prescribed and a Tag field; Acoustic-potential:
\* None, Dirichlet), and leaves the rows of the other six tabs unchanged; the
\* delete button of a row removes only that row, from the list it was added to.
C24_ButtonsActOnTheirTab ==
    [][ /\ (lastOp' = "add_bc_row") =>
              LET old == bc_layouts[ShownTab]
                  new == bc_layouts'[ShownTab]
              IN  /\ Len(new) = Len(old) + 1
                  /\ BCContents(SubSeq(new, 1, Len(old))) = BCContents(old)
                  /\ new[Len(new)].items = OptionsOf(ShownTab).items
                  /\ new[Len(new)].has_tag = OptionsOf(ShownTab).has_tag
                  /\ new[Len(new)].type = "None"
                  /\ new[Len(new)].name = EmptyText
                  /\ OtherTabsUnchanged(ShownTab)
        /\ (lastOp' = "remove_generic_row") =>
              /\ \E i \in 1..Len(bc_layouts[ShownTab]) :
                     BCContents(bc_layouts'[ShownTab])
                         = BCContents(RowsWithout(bc_layouts[ShownTab], i))
              /\ OtherTabsUnchanged(ShownTab) ]_vars

\* The add button of the X-disp tab has just been clicked: the tab has its
\* first row, with the options of a displacement tab and a Tag field, and the
\* X-velocity tab still has its named row.
C24_Witness ==
    /\ lastOp = "add_bc_row"
    /\ ShownTab = "X-disp"
    /\ Len(bc_layouts["X-disp"]) = 1
    /\ bc_layouts["X-disp"][1].items = << "None", "Dirichlet", "prescribed" >>
    /\ bc_layouts["X-disp"][1].has_tag
    /\ Len(bc_layouts["X-velocity"]) = 1
    /\ bc_layouts["X-velocity"][1].name = << "w" >>
    /\ bc_layouts["Acoustic-potential"] = <<>>

====
